---- MODULE Spec2Model ----
(***************************************************************************)
(* EcoVerify-Prime: the cyclic agent graph (vanguard, jurist, architect,   *)
(* governor, finalize), its routers, the per-field state merge, and the    *)
(* HTTP driver (start_run / resume_run / inject_anomaly) that runs the     *)
(* compiled graph over an in-process checkpointer; then the NHI layer:     *)
(* decision-trace signing and verification, the per-agent key files, the   *)
(* citation check and the traces endpoint.                                 *)
(***************************************************************************)
EXTENDS Integers, Sequences, FiniteSets, TLC

VARIABLES
    store,        \* checkpointer: thread_id -> latest checkpoint
    runs,         \* asyncio tasks created by start_run / resume_run
    active_runs,  \* routes._active_runs: thread_id -> status
    injected,     \* bms._injected_anomalies for building HQ-01
    steps,        \* steps dispatched so far (bounds the exploration)
    h_pc,         \* unit harness: position
    h_state,      \* unit harness: the state handed to the function under test
    h_delta,      \* unit harness: the delta handed to the merge
    h_out,        \* unit harness: the result
    h_trail       \* unit harness: nodes dispatched so far

vars == <<store, runs, active_runs, injected, steps, h_pc, h_state, h_delta, h_out, h_trail>>

-----------------------------------------------------------------------------
(* Bounds of the model *)

MaxRuns == 2
MaxSteps == 6
MaxIterInput == 6
MaxItems == 2
MaxResumes == 2

(* Program constants *)

MAX_ITERATIONS == 5
Sha256HexLen == 64

Threads == {"T1", "T2"}
RunIds == 1..MaxRuns

END == "__end__"
Nodes == {"vanguard", "jurist", "architect", "governor", "finalize"}

-----------------------------------------------------------------------------
(* EcoVerifyState: field names and reducers *)

AllFields ==
    {"messages", "telemetry_data", "anomalies", "citations", "decision_traces",
     "compliance_report", "simulation_result", "jira_tickets", "governor_approval",
     "settlements", "risk_scores", "fhir_observations", "edutech_hints",
     "user_intent", "current_phase", "error_log", "iteration_count", "ui_events"}

\* Fields declared Annotated[list, operator.add] (or add_messages).
AdditiveFields ==
    {"messages", "decision_traces", "settlements", "risk_scores",
     "fhir_observations", "edutech_hints", "error_log", "ui_events"}

NullReport ==
    [null |-> TRUE, has_status |-> FALSE, status |-> "none",
     requires_human_oversight |-> FALSE, anomalies_evaluated |-> 0]

Report(st, hitl, n) ==
    [null |-> FALSE, has_status |-> TRUE, status |-> st,
     requires_human_oversight |-> hitl, anomalies_evaluated |-> n]

\* A report dict without a "status" key, e.g. {}.
BareReport ==
    [null |-> FALSE, has_status |-> FALSE, status |-> "none",
     requires_human_oversight |-> FALSE, anomalies_evaluated |-> 0]

NullSimulation == [null |-> TRUE, roi_adjustment |-> 0, monthly_savings_usd |-> 0]

NullTelemetry == [null |-> TRUE, energy_count |-> 0, water_count |-> 0]

\* The initial_state literal of start_run.
InitialState ==
    [messages |-> <<>>, telemetry_data |-> NullTelemetry, anomalies |-> <<>>,
     citations |-> <<>>, decision_traces |-> <<>>, compliance_report |-> NullReport,
     simulation_result |-> NullSimulation, jira_tickets |-> <<>>,
     governor_approval |-> "null", settlements |-> <<>>, risk_scores |-> <<>>,
     fhir_observations |-> <<>>, edutech_hints |-> <<>>, user_intent |-> "null",
     current_phase |-> "starting", error_log |-> <<>>, iteration_count |-> 0,
     ui_events |-> <<>>]

-----------------------------------------------------------------------------
(* State merge: one reducer per field *)

MergeFieldDropOld(f, old, new) == IF f = "settlements" THEN new
                                  ELSE IF f \in AdditiveFields THEN old \o new ELSE new

MergeField(f, old, new) == IF f \in AdditiveFields THEN old \o new ELSE new

Merge(s, d) ==
    [f \in DOMAIN s |-> IF f \in DOMAIN d THEN MergeField(f, s[f], d[f]) ELSE s[f]]

IsPrefix(a, b) == Len(a) <= Len(b) /\ SubSeq(b, 1, Len(a)) = a

-----------------------------------------------------------------------------
(* Records carried in the state *)

Trace(agent, action, found, status, approved, roi) ==
    [agent_id |-> agent, action |-> action, anomalies_found |-> found,
     status |-> status, approved |-> approved, roi_adjustment |-> roi]

UiEvent(type, agent, severity) == [type |-> type, agent |-> agent, severity |-> severity]

Anomaly(type, severity) == [type |-> type, severity |-> severity]

CiteDataSourceUnhashed(source_id) == [source_id |-> source_id, hash_len |-> 0]

\* cite_data_source: the hash is a SHA-256 hex digest.
CiteDataSource(source_id) == [source_id |-> source_id, hash_len |-> Sha256HexLen]

\* verify_citations_present: non-empty, and every hash non-empty of length 64.
VerifyCitationsPresent(citations) ==
    /\ Len(citations) > 0
    /\ \A i \in 1..Len(citations) :
          citations[i].hash_len # 0 /\ citations[i].hash_len = Sha256HexLen

-----------------------------------------------------------------------------
(* Simulated BMS telemetry.  A reading is summarised by the source's own    *)
(* anomaly_count and by whether peak exceeds the mean by the "high" margin. *)
(* Random noise alone can score a reading above 0.3, so a nominal scan may  *)
(* report anomaly_count > 0; an injected severity > 0 always does (the last *)
(* three hours are all counted).                                            *)

TelemetryCounts(injected_severity) ==
    IF injected_severity > 0 THEN {3} ELSE {0, 1}

\* The readings sampled: a clean scan, a scan where noise alone trips the
\* water score, and a spiked scan.  Over 24 hourly readings the day/night
\* baseline alone puts the peak above the mean by more than the "high" margin.
TelemetrySamples ==
    { [energy_count |-> 0, energy_high |-> TRUE, water_count |-> 0, water_high |-> TRUE],
      [energy_count |-> 0, energy_high |-> TRUE, water_count |-> 1, water_high |-> TRUE],
      [energy_count |-> 3, energy_high |-> TRUE, water_count |-> 3, water_high |-> TRUE] }

Telemetry(inj) ==
    { tel \in TelemetrySamples :
        /\ tel.energy_count \in TelemetryCounts(inj.energy)
        /\ tel.water_count \in TelemetryCounts(inj.water) }

-----------------------------------------------------------------------------
(* Node results: a delta, a Command (delta plus goto), an interrupt, or an  *)
(* exception.                                                               *)

Delta(update) == [kind |-> "delta", update |-> update, goto |-> "none"]
CommandTo(goto, update) == [kind |-> "command", update |-> update, goto |-> goto]
Interrupt == [kind |-> "interrupt", update |-> [current_phase |-> "none"], goto |-> "none"]
Raise == [kind |-> "raise", update |-> [current_phase |-> "none"], goto |-> "none"]

\* A human response is a dict; has_approved / has_roi tell whether the key
\* is in it (resume_run always sets both).
NoResponse ==
    [null |-> TRUE, has_approved |-> FALSE, approved |-> FALSE,
     has_roi |-> FALSE, roi_adjustment |-> 0]
HumanResponse(approved, roi) ==
    [null |-> FALSE, has_approved |-> TRUE, approved |-> approved,
     has_roi |-> TRUE, roi_adjustment |-> roi]

\* roi_adjustment in thousandths (1000 = 1.0); ResumeRequest allows 0.5..1.5.
RoiInputs == {800}
HumanResponses ==
    { HumanResponse(TRUE, 1000) } \cup { HumanResponse(FALSE, r) : r \in RoiInputs }

VanguardAnomalies(tel) ==
    (IF tel.energy_count > 0
        THEN << Anomaly("energy_spike", IF tel.energy_high THEN "high" ELSE "medium") >>
        ELSE << >>)
    \o
    (IF tel.water_count > 0
        THEN << Anomaly("water_spike", IF tel.water_high THEN "high" ELSE "medium") >>
        ELSE << >>)

VanguardNodeKeepsCount(state, tel) ==
    LET anomalies == VanguardAnomalies(tel)
        trace == Trace("vanguard", "anomaly_scan", Len(anomalies), "n/a", FALSE, 0)
    IN Delta(
        [telemetry_data |-> [null |-> FALSE, energy_count |-> tel.energy_count,
                             water_count |-> tel.water_count],
         anomalies |-> anomalies,
         citations |-> << CiteDataSource("bms:energy:HQ-01"), CiteDataSource("bms:water:HQ-01") >>,
         decision_traces |-> << trace >>,
         current_phase |-> "vanguard_complete",
         iteration_count |-> state.iteration_count,
         ui_events |-> << UiEvent("neural_feed", "VANGUARD",
                                  IF Len(anomalies) > 0 THEN anomalies[1].severity ELSE "low") >>,
         messages |-> << "vanguard" >>])

VanguardNode(state, tel) ==
    LET anomalies == VanguardAnomalies(tel)
        trace == Trace("vanguard", "anomaly_scan", Len(anomalies), "n/a", FALSE, 0)
    IN Delta(
        [telemetry_data |-> [null |-> FALSE, energy_count |-> tel.energy_count,
                             water_count |-> tel.water_count],
         anomalies |-> anomalies,
         citations |-> << CiteDataSource("bms:energy:HQ-01"), CiteDataSource("bms:water:HQ-01") >>,
         decision_traces |-> << trace >>,
         current_phase |-> "vanguard_complete",
         iteration_count |-> state.iteration_count + 1,
         ui_events |-> << UiEvent("neural_feed", "VANGUARD",
                                  IF Len(anomalies) > 0 THEN anomalies[1].severity ELSE "low") >>,
         messages |-> << "vanguard" >>])

CheckCompliantRejectsHigh(risk_level) == risk_level \notin {"unacceptable", "high"}

\* check_compliance_vector: only an "unacceptable" risk level is rejected.
CheckCompliant(risk_level) == risk_level # "unacceptable"
CheckRequiresOversight(risk_level) == risk_level \in {"high", "unacceptable"}

\* anomaly.get("severity", "high")
RiskLevel(anomaly) == IF anomaly.severity = "absent" THEN "high" ELSE anomaly.severity

JuristCitationFailureWithTrace ==
    Delta([current_phase |-> "citation_failure",
           error_log |-> << "JURIST: Cite-Before-Act violation" >>,
           ui_events |-> << UiEvent("neural_feed", "JURIST", "high") >>,
           compliance_report |-> NullReport,
           decision_traces |-> << Trace("jurist", "compliance_evaluation", 0, "n/a", FALSE, 0) >>,
           messages |-> << "jurist" >>])

\* jurist_node, step 1: the delta returned when the citations are not valid.
JuristCitationFailure ==
    Delta([current_phase |-> "citation_failure",
           error_log |-> << "JURIST: Cite-Before-Act violation" >>,
           ui_events |-> << UiEvent("neural_feed", "JURIST", "high") >>,
           compliance_report |-> NullReport,
           messages |-> << "jurist" >>])

JuristNode(state) ==
    IF ~VerifyCitationsPresent(state.citations) THEN JuristCitationFailure
    ELSE IF Len(state.anomalies) = 0 THEN
        Delta([current_phase |-> "jurist_complete",
               compliance_report |-> Report("compliant", FALSE, 0),
               ui_events |-> << UiEvent("neural_feed", "JURIST", "low") >>,
               messages |-> << "jurist" >>])
    ELSE
        LET n == Len(state.anomalies)
            all_compliant == \A i \in 1..n : CheckCompliant(RiskLevel(state.anomalies[i]))
            requires_hitl == \E i \in 1..n : CheckRequiresOversight(RiskLevel(state.anomalies[i]))
            status == IF all_compliant THEN "compliant" ELSE "non_compliant"
        IN Delta([current_phase |-> "jurist_complete",
                  compliance_report |-> Report(status, requires_hitl, n),
                  decision_traces |-> << Trace("jurist", "compliance_evaluation", n, status, requires_hitl, 0) >>,
                  ui_events |-> << UiEvent("neural_feed", "JURIST",
                                           IF all_compliant THEN "medium" ELSE "high"),
                                   UiEvent("neural_feed", "JURIST", "low") >>,
                  messages |-> << "jurist" >>])

\* _compute_roi: monthly saving per anomaly in USD at adjustment 1.0, using
\* the defaults of a.get(...) for peak and mean; scaled by roi_adjustment.
BaseSaving(anomaly) ==
    IF anomaly.type = "energy_spike" THEN 6898
    ELSE IF anomaly.type = "water_spike" THEN 1314
    ELSE 2400

RECURSIVE SumSavings(_, _)
SumSavings(anomalies, adj) ==
    IF Len(anomalies) = 0 THEN 0
    ELSE (BaseSaving(Head(anomalies)) * adj) \div 1000 + SumSavings(Tail(anomalies), adj)

ComputeRoi(anomalies, adj) ==
    [null |-> FALSE, roi_adjustment |-> adj, monthly_savings_usd |-> SumSavings(anomalies, adj)]

RoiAdjustmentUntightened(state) ==
    IF state.governor_approval = "false" /\ ~state.simulation_result.null
        THEN state.simulation_result.roi_adjustment
        ELSE 1000

\* architect_node: roi_adj is 1.0 unless the Governor sent the thread back,
\* then 0.9 times the roi_adjustment held in simulation_result.
RoiAdjustment(state) ==
    IF state.governor_approval = "false" /\ ~state.simulation_result.null
        THEN (state.simulation_result.roi_adjustment * 9) \div 10
        ELSE 1000

ArchitectNodeUnsigned(state) ==
    LET roi_adj == RoiAdjustment(state)
        roi == ComputeRoi(state.anomalies, roi_adj)
        jira_tickets == IF Len(state.anomalies) > 0 THEN << [status |-> "Open"] >> ELSE << >>
    IN Delta([current_phase |-> "architect_complete",
              simulation_result |-> roi,
              jira_tickets |-> jira_tickets,
              ui_events |-> << UiEvent("neural_feed", "ARCHITECT", "low"),
                               UiEvent("3d_update", "ARCHITECT", "low") >>
                            \o (IF Len(jira_tickets) > 0
                                   THEN << UiEvent("neural_feed", "ARCHITECT", "low") >>
                                   ELSE << >>),
              messages |-> << "architect" >>])

ArchitectNode(state) ==
    LET roi_adj == RoiAdjustment(state)
        roi == ComputeRoi(state.anomalies, roi_adj)
        jira_tickets == IF Len(state.anomalies) > 0 THEN << [status |-> "Open"] >> ELSE << >>
    IN Delta([current_phase |-> "architect_complete",
              simulation_result |-> roi,
              jira_tickets |-> jira_tickets,
              decision_traces |-> << Trace("architect", "roi_simulation", 0, "n/a", FALSE, roi_adj) >>,
              ui_events |-> << UiEvent("neural_feed", "ARCHITECT", "low"),
                               UiEvent("3d_update", "ARCHITECT", "low") >>
                            \o (IF Len(jira_tickets) > 0
                                   THEN << UiEvent("neural_feed", "ARCHITECT", "low") >>
                                   ELSE << >>),
              messages |-> << "architect" >>])

GovernorRejectedKeepRoi(state, roi_adjustment, trace) ==
    CommandTo("architect",
        [governor_approval |-> "false",
         current_phase |-> "governor_rejected",
         decision_traces |-> << trace >>,
         simulation_result |-> state.simulation_result,
         ui_events |-> << UiEvent("neural_feed", "GOVERNOR", "medium") >>,
         messages |-> << "governor" >>])

\* governor_node, rejected branch: loop back to the architect with the
\* human-supplied roi_adjustment written into simulation_result.
GovernorRejected(state, roi_adjustment, trace) ==
    CommandTo("architect",
        [governor_approval |-> "false",
         current_phase |-> "governor_rejected",
         decision_traces |-> << trace >>,
         simulation_result |-> [state.simulation_result EXCEPT
                                   !.roi_adjustment = roi_adjustment],
         ui_events |-> << UiEvent("neural_feed", "GOVERNOR", "medium") >>,
         messages |-> << "governor" >>])

\* governor_node: the summary reads simulation_result and compliance_report
\* with .get before the interrupt, which fails on None.
GovernorNode(state, human_response) ==
    IF state.simulation_result.null \/ state.compliance_report.null THEN Raise
    ELSE IF human_response.null THEN Interrupt
    ELSE
        LET approved == IF human_response.has_approved THEN human_response.approved ELSE FALSE
            roi_adjustment == IF human_response.has_roi THEN human_response.roi_adjustment
                              ELSE 1000
            trace == Trace("governor", "human_approval", 0, "n/a", approved, roi_adjustment)
        IN IF approved THEN
               CommandTo("finalize",
                   [governor_approval |-> "true",
                    current_phase |-> "governor_approved",
                    decision_traces |-> << trace >>,
                    ui_events |-> << UiEvent("neural_feed", "GOVERNOR", "low") >>,
                    messages |-> << "governor" >>])
           ELSE GovernorRejected(state, roi_adjustment, trace)

\* Outcome of finalize's best-effort adapters: TRUE = the call returned.
AdapterOutcomes ==
    { [settlement |-> b, risk |-> b, fhir |-> b, fintech |-> b] : b \in BOOLEAN }

FinalizeNode(state, ad) ==
    IF state.simulation_result.null \/ state.compliance_report.null THEN Raise
    ELSE
        LET sim == state.simulation_result
            settlements == IF ad.settlement /\ sim.monthly_savings_usd > 0
                           THEN << [amount_usdc |-> sim.monthly_savings_usd] >> ELSE << >>
            risk_scores == IF ad.risk THEN << [category |-> "risk"] >> ELSE << >>
            fhir == IF ad.fhir THEN << [code |-> "energy"] >> ELSE << >>
        IN Delta([current_phase |-> "complete",
                  settlements |-> settlements,
                  risk_scores |-> risk_scores,
                  edutech_hints |-> << >>,
                  fhir_observations |-> fhir,
                  ui_events |-> << UiEvent("proof_graph", "SYSTEM", "low"),
                                   UiEvent("neural_feed", "SYSTEM", "low"),
                                   UiEvent("execution_complete", "SYSTEM", "low") >>
                                \o (IF Len(settlements) > 0
                                       THEN << UiEvent("settlement_update", "SYSTEM", "low"),
                                               UiEvent("neural_feed", "SYSTEM", "low") >>
                                       ELSE << >>)
                                \o (IF Len(risk_scores) > 0
                                       THEN << UiEvent("risk_alert", "SYSTEM", "low"),
                                               UiEvent("neural_feed", "SYSTEM", "low") >>
                                       ELSE << >>)
                                \o (IF ad.fhir
                                       THEN << UiEvent("fhir_audit", "FHIR", "low"),
                                               UiEvent("neural_feed", "FHIR", "low") >>
                                       ELSE << >>)
                                \o (IF ad.fintech
                                       THEN << UiEvent("neural_feed", "FINTECH", "low"),
                                               UiEvent("neural_feed", "FINTECH", "low") >>
                                       ELSE << >>),
                  messages |-> << "system" >>])

-----------------------------------------------------------------------------
(* Routers (edges.py).  "AttributeError" stands for the exception raised by *)
(* None.get(...).                                                           *)

route_after_vanguard_always_jurist(state) == "jurist"

route_after_vanguard(state) ==
    IF Len(state.anomalies) > 0 THEN "jurist" ELSE END

route_after_jurist_strict(state) ==
    IF state.current_phase = "citation_failure" THEN
        IF state.iteration_count > MAX_ITERATIONS THEN END ELSE "vanguard"
    ELSE IF state.compliance_report.null THEN "AttributeError"
    ELSE IF state.compliance_report.has_status /\ state.compliance_report.status = "non_compliant"
        THEN "governor"
    ELSE "architect"

route_after_jurist(state) ==
    IF state.current_phase = "citation_failure" THEN
        IF state.iteration_count >= MAX_ITERATIONS THEN END ELSE "vanguard"
    ELSE IF state.compliance_report.null THEN "AttributeError"
    ELSE IF state.compliance_report.has_status /\ state.compliance_report.status = "non_compliant"
        THEN "governor"
    ELSE "architect"

route_after_architect_to_vanguard(state) == "vanguard"

route_after_architect(state) == "governor"

-----------------------------------------------------------------------------
(* The graph runtime over the checkpointer, as driven by routes.py.         *)
(*                                                                          *)
(* start_run and resume_run each create a background task that streams the  *)
(* compiled graph for the thread.  A task loads the thread's latest         *)
(* checkpoint once, then works on its own copy of the channels, writing a   *)
(* new checkpoint after every step.  Nothing serialises two tasks of the    *)
(* same thread_id.  The checkpointer is the in-process MemorySaver of the   *)
(* compiled-graph singleton.                                                *)

NoCheckpoint ==
    [exists |-> FALSE, vals |-> InitialState, next |-> END, interrupted |-> FALSE, writer |-> 0]

FreeRun ==
    [pc |-> "free", tid |-> "none", kind |-> "none", resume |-> NoResponse,
     from_interrupt |-> FALSE, vals |-> InitialState, node |-> "none"]

Severities == {0, 800}
NoInjection == [energy |-> 0, water |-> 0]

FreeSlots == { r \in RunIds : runs[r].pc = "free" }
FreeSlot == CHOOSE r \in FreeSlots : \A q \in FreeSlots : r <= q

RunsOf(t) == { r \in RunIds : runs[r].pc # "free" /\ runs[r].tid = t }
InFlight(t) == { r \in RunIds : runs[r].pc = "running" /\ runs[r].tid = t }

HarnessOff ==
    /\ h_pc = "off"
    /\ h_state = InitialState
    /\ h_delta = [current_phase |-> "none"]
    /\ h_out = [fn |-> "none", to |-> "none"]
    /\ h_trail = << >>

HarnessUnchanged == UNCHANGED <<h_pc, h_state, h_delta, h_out, h_trail>>

RuntimeInit ==
    /\ store = [t \in Threads |-> NoCheckpoint]
    /\ runs = [r \in RunIds |-> FreeRun]
    /\ active_runs = [t \in Threads |-> "absent"]
    /\ injected = NoInjection
    /\ steps = 0

RuntimeUnchanged == UNCHANGED <<store, runs, active_runs, injected, steps>>

Init ==
    /\ RuntimeInit
    /\ HarnessOff

\* POST /api/run
StartRun(t) ==
    /\ FreeSlots # {}
    /\ runs' = [runs EXCEPT ![FreeSlot] =
                   [FreeRun EXCEPT !.pc = "created", !.tid = t, !.kind = "start"]]
    /\ active_runs' = [active_runs EXCEPT ![t] = "running"]
    /\ UNCHANGED <<store, injected, steps>>
    /\ HarnessUnchanged

\* POST /api/resume/{thread_id}: rejected with 400 when state.next is empty,
\* otherwise a task streaming Command(resume=human_response) is created.
ResumePending(t) == store[t].exists /\ store[t].next # END

ResumeRun(t, human_response) ==
    /\ IF ~ResumePending(t)
          THEN UNCHANGED runs
          ELSE /\ FreeSlots # {}
               /\ runs' = [runs EXCEPT ![FreeSlot] =
                              [FreeRun EXCEPT !.pc = "created", !.tid = t, !.kind = "resume",
                                              !.resume = human_response]]
    /\ UNCHANGED <<store, active_runs, injected, steps>>
    /\ HarnessUnchanged

\* The task starts: it loads the checkpoint; a start task applies its input
\* through the reducers and saves the "input" checkpoint, a resume task
\* binds the resume value to the pending step.
EnterRun(r) ==
    LET run == runs[r]
        t == run.tid
        cp == store[t]
    IN
    /\ run.pc = "created"
    /\ IF run.kind = "start" THEN
           LET vals == Merge(IF cp.exists THEN cp.vals ELSE InitialState, InitialState)
           IN /\ store' = [store EXCEPT ![t] =
                              [exists |-> TRUE, vals |-> vals, next |-> "vanguard",
                               interrupted |-> FALSE, writer |-> r]]
              /\ runs' = [runs EXCEPT ![r] =
                             [run EXCEPT !.pc = "ready", !.vals = vals, !.node = "vanguard"]]
              /\ UNCHANGED active_runs
       ELSE IF ~(cp.exists /\ cp.next # END) THEN
           \* nothing is pending any more: the stream ends at once
           /\ runs' = [runs EXCEPT ![r] = FreeRun]
           /\ active_runs' = [active_runs EXCEPT ![t] =
                                 IF @ = "absent" THEN @ ELSE "completed"]
           /\ UNCHANGED store
       ELSE
           /\ runs' = [runs EXCEPT ![r] =
                          [run EXCEPT !.pc = "ready", !.vals = cp.vals, !.node = cp.next,
                                      !.from_interrupt = cp.interrupted]]
           /\ UNCHANGED <<store, active_runs>>
    /\ UNCHANGED <<injected, steps>>
    /\ HarnessUnchanged

\* A step is dispatched: the node function starts executing.
StepBegin(r) ==
    /\ runs[r].pc = "ready"
    /\ steps < MaxSteps
    /\ runs' = [runs EXCEPT ![r].pc = "running"]
    /\ steps' = steps + 1
    /\ UNCHANGED <<store, active_runs, injected>>
    /\ HarnessUnchanged

\* build_graph: the edge taken after a node that returned a delta.
RouteAfter(node, state) ==
    CASE node = "vanguard" -> route_after_vanguard(state)
      [] node = "jurist" -> route_after_jurist(state)
      [] node = "architect" -> route_after_architect(state)
      [] node = "finalize" -> END
      [] OTHER -> "AttributeError"

\* finalize_node sets ticket["status"] = "In Progress" on the tickets it is handed.
SubmitTickets(tickets) == [i \in 1..Len(tickets) |-> [tickets[i] EXCEPT !.status = "In Progress"]]

\* The state object a step was handed, as it is when the step returns:
\* finalize_node writes the status into the ticket dicts of its input; the
\* other nodes only read theirs.
InputAfter(node, res, state) ==
    IF node = "finalize" /\ res.kind # "raise"
       THEN [state EXCEPT !.jira_tickets = SubmitTickets(@)]
       ELSE state

\* The input state as the runtime holds it once the node has returned.
\* finalize_node returns no jira_tickets; whether the runtime's stored value
\* shares the dicts the step wrote to is not decided by this repository, so
\* both outcomes are taken.
SeenAfter(node, res, state) == { state, InputAfter(node, res, state) }

NodeResults(node, state, human_response, inj) ==
    CASE node = "vanguard" -> { VanguardNode(state, tel) : tel \in Telemetry(inj) }
      [] node = "jurist" -> { JuristNode(state) }
      [] node = "architect" -> { ArchitectNode(state) }
      [] node = "governor" -> { GovernorNode(state, human_response) }
      [] node = "finalize" -> { FinalizeNode(state, ad) : ad \in AdapterOutcomes }

\* The step finishes: its delta is merged, the checkpoint for the new state
\* is saved and the next step is picked; an interrupt or the end of the graph
\* ends the task.
StepEnd(r) ==
    LET run == runs[r]
        t == run.tid
        node == run.node
    IN
    /\ run.pc = "running"
    /\ \E res \in NodeResults(node, run.vals, run.resume, injected) :
       \E seen \in SeenAfter(node, res, run.vals) :
         LET vals == IF res.kind \in {"delta", "command"} THEN Merge(seen, res.update) ELSE seen
             next == IF res.kind = "command" THEN res.goto
                     ELSE IF res.kind = "delta" THEN RouteAfter(node, vals)
                     ELSE "none"
         IN
         /\ injected' = IF node = "vanguard" THEN NoInjection ELSE injected
         /\ IF res.kind = "raise" \/ next = "AttributeError" THEN
                /\ runs' = [runs EXCEPT ![r] = FreeRun]
                /\ active_runs' = [active_runs EXCEPT ![t] = IF @ = "absent" THEN @ ELSE "error"]
                /\ UNCHANGED store
            ELSE IF res.kind = "interrupt" THEN
                /\ runs' = [runs EXCEPT ![r] = FreeRun]
                /\ active_runs' = [active_runs EXCEPT ![t] = IF @ = "absent" THEN @ ELSE "completed"]
                /\ store' = IF store[t].exists /\ store[t].writer = r
                               THEN [store EXCEPT ![t].interrupted = TRUE]
                               ELSE store
            ELSE
                /\ store' = [store EXCEPT ![t] =
                                [exists |-> TRUE, vals |-> vals, next |-> next,
                                 interrupted |-> FALSE, writer |-> r]]
                /\ IF next = END THEN
                       /\ runs' = [runs EXCEPT ![r] = FreeRun]
                       /\ active_runs' = [active_runs EXCEPT ![t] =
                                             IF @ = "absent" THEN @ ELSE "completed"]
                   ELSE
                       /\ runs' = [runs EXCEPT ![r] =
                                      [run EXCEPT !.pc = "ready", !.vals = vals,
                                                  !.node = next, !.resume = NoResponse]]
                       /\ UNCHANGED active_runs
    /\ UNCHANGED steps
    /\ HarnessUnchanged

\* POST /api/inject-anomaly
InjectAnomaly(severity) ==
    /\ injected' = [energy |-> severity, water |-> (severity * 8) \div 10]
    /\ UNCHANGED <<store, runs, active_runs, steps>>
    /\ HarnessUnchanged

\* The server process is restarted: every module-level object is rebuilt
\* empty, the MemorySaver of the compiled graph included.
Restart ==
    /\ \E t \in Threads : store[t].exists
    /\ store' = [t \in Threads |-> NoCheckpoint]
    /\ runs' = [r \in RunIds |-> FreeRun]
    /\ active_runs' = [t \in Threads |-> "absent"]
    /\ injected' = NoInjection
    /\ UNCHANGED steps
    /\ HarnessUnchanged

Next ==
    \/ \E t \in Threads : StartRun(t)
    \/ \E t \in Threads, hr \in HumanResponses : ResumeRun(t, hr)
    \/ \E r \in RunIds : EnterRun(r)
    \/ \E r \in RunIds : StepBegin(r)
    \/ \E r \in RunIds : StepEnd(r)
    \/ \E severity \in Severities : InjectAnomaly(severity)
    \/ Restart

Spec == Init /\ [][Next]_vars

-----------------------------------------------------------------------------
(* Unit harnesses: a function of the program applied to inputs drawn from   *)
(* bounded sets of EcoVerifyState values.                                    *)

\* The values current_phase takes in the program.
Phases ==
    {"starting", "vanguard_complete", "jurist_complete", "citation_failure",
     "architect_complete", "governor_approved", "governor_rejected", "complete"}

ReportInputs ==
    {NullReport, BareReport, Report("compliant", FALSE, 1), Report("non_compliant", TRUE, 1)}

AnomalyInputs == { << >>, << Anomaly("energy_spike", "high") >> }

\* --- routers -------------------------------------------------------------

RouterStates ==
    { [InitialState EXCEPT !.current_phase = p, !.compliance_report = c,
                           !.iteration_count = n, !.anomalies = a] :
        p \in Phases, c \in ReportInputs, n \in 0..MaxIterInput, a \in AnomalyInputs }

RouterInit ==
    /\ RuntimeInit
    /\ h_pc = "call"
    /\ h_state \in RouterStates
    /\ h_delta = [current_phase |-> "none"]
    /\ h_out = [fn |-> "none", to |-> "none"]
    /\ h_trail = << >>

CallRouter(fn) ==
    /\ h_pc = "call"
    /\ h_pc' = "returned"
    /\ h_out' = [fn |-> fn,
                 to |-> CASE fn = "route_after_vanguard" -> route_after_vanguard(h_state)
                          [] fn = "route_after_jurist" -> route_after_jurist(h_state)
                          [] fn = "route_after_architect" -> route_after_architect(h_state)]
    /\ UNCHANGED <<h_state, h_delta, h_trail>>
    /\ RuntimeUnchanged

RouterNext ==
    \/ CallRouter("route_after_vanguard")
    \/ CallRouter("route_after_jurist")
    \/ CallRouter("route_after_architect")

SpecRouter == RouterInit /\ [][RouterNext]_vars

\* --- merge ---------------------------------------------------------------

ListFields == AdditiveFields \cup {"anomalies", "citations", "jira_tickets"}

ItemSeqs == UNION { [1..n -> {"a", "b"}] : n \in 0..MaxItems }

\* Values a field can hold, by the field's type.
FieldValues(f) ==
    IF f \in ListFields THEN ItemSeqs
    ELSE IF f = "iteration_count" THEN {0, 1}
    ELSE IF f = "governor_approval" THEN {"null", "true"}
    ELSE IF f = "current_phase" THEN {"starting", "complete"}
    ELSE IF f = "compliance_report" THEN {NullReport, BareReport}
    ELSE IF f = "simulation_result" THEN {NullSimulation, ComputeRoi(<< >>, 1000)}
    ELSE IF f = "telemetry_data" THEN {NullTelemetry, [NullTelemetry EXCEPT !.null = FALSE]}
    ELSE {"null", "intent"}

\* Pre-states: the initial state, with one or two fields holding something else.
MergeStates ==
    UNION { { [InitialState EXCEPT !["decision_traces"] = v, ![g] = w] :
                v \in ItemSeqs, w \in FieldValues(g) \ {<< >>} } :
            g \in {"settlements", "current_phase", "messages"} }

\* Deltas: every field alone, with each of its values.
MergeDeltas ==
    UNION { { [g \in {f} |-> v] : v \in FieldValues(f) } : f \in AllFields }
    \cup { [decision_traces |-> v, current_phase |-> "complete"] : v \in ItemSeqs }

MergeInit ==
    /\ RuntimeInit
    /\ h_pc = "call"
    /\ h_state \in MergeStates
    /\ h_delta \in MergeDeltas
    /\ h_out = [fn |-> "none", to |-> "none"]
    /\ h_trail = << >>

ApplyMerge ==
    /\ h_pc = "call"
    /\ h_pc' = "merged"
    /\ h_out' = Merge(h_state, h_delta)
    /\ UNCHANGED <<h_state, h_delta, h_trail>>
    /\ RuntimeUnchanged

MergeNext == ApplyMerge

SpecMerge == MergeInit /\ [][MergeNext]_vars

\* --- the jurist / vanguard self-correction loop ---------------------------

CitationInputs ==
    { << >>,
      << [source_id |-> "bms:energy:HQ-01", hash_len |-> 0] >>,
      << CiteDataSource("bms:energy:HQ-01") >> }

LoopStates ==
    { [InitialState EXCEPT !.citations = c, !.anomalies = a, !.iteration_count = n] :
        c \in CitationInputs, a \in AnomalyInputs, n \in 0..MaxIterInput }

LoopNodes == {"vanguard", "jurist"}

\* The run enters at START (vanguard) or, fed directly, at the jurist.
LoopInit ==
    /\ RuntimeInit
    /\ h_pc = "ready"
    /\ h_state \in LoopStates
    /\ h_delta = [current_phase |-> "none"]
    /\ h_out \in { [fn |-> "entry", to |-> n] : n \in LoopNodes }
    /\ h_trail = << >>

\* One step of the run: the node at h_out.to is dispatched, its delta merged
\* and the conditional edge evaluated; the harness follows the run while it
\* stays inside the loop.
LoopStep ==
    /\ h_pc = "ready"
    /\ \E res \in NodeResults(h_out.to, h_state, NoResponse, NoInjection) :
         LET vals == Merge(h_state, res.update)
             next == RouteAfter(h_out.to, vals)
         IN /\ h_state' = vals
            /\ h_delta' = res.update
            /\ h_out' = [fn |-> h_out.to, to |-> next]
            /\ h_trail' = Append(h_trail, h_out.to)
            /\ h_pc' = IF next \in LoopNodes THEN "ready" ELSE "done"
    /\ RuntimeUnchanged

LoopNext == LoopStep

SpecLoop == LoopInit /\ [][LoopNext]_vars /\ WF_vars(LoopStep)

\* --- one thread run alone: start or a fed state, suspend, resume -----------

RunAnomalyInputs ==
    { << Anomaly("energy_spike", "high") >>,
      << Anomaly("energy_spike", "unacceptable") >>,
      << Anomaly("energy_spike", "medium"), Anomaly("water_spike", "unacceptable") >> }

\* A thread enters at START with the initial state, or a state is fed to the
\* jurist directly.
RunEntries ==
    { [to |-> "vanguard", state |-> InitialState] }
    \cup { [to |-> "jurist",
            state |-> [InitialState EXCEPT !.citations = c, !.anomalies = a]] :
             c \in CitationInputs, a \in RunAnomalyInputs }

\* Dicts a caller can resume with: either key may be missing.
RunResponses ==
    { [null |-> FALSE, has_approved |-> ha, approved |-> ha /\ ap,
       has_roi |-> hr, roi_adjustment |-> IF hr THEN roi ELSE 0] :
        ha \in BOOLEAN, ap \in BOOLEAN, hr \in BOOLEAN, roi \in {800, 1500} }

InjectionInputs == { NoInjection, [energy |-> 800, water |-> 640] }

RunInit ==
    /\ RuntimeInit
    /\ h_pc = "ready"
    /\ \E e \in RunEntries :
          /\ h_state = e.state
          /\ h_out = [fn |-> "entry", to |-> e.to, resume |-> NoResponse]
    /\ h_delta = [current_phase |-> "none"]
    /\ h_trail = << >>

\* One step of the run: dispatch, merge, checkpoint, pick the next step.
RunStep ==
    /\ h_pc = "ready"
    /\ \E inj \in InjectionInputs :
       \E res \in NodeResults(h_out.to, h_state, h_out.resume, inj) :
       \E seen \in SeenAfter(h_out.to, res, h_state) :
         LET node == h_out.to
             vals == IF res.kind \in {"delta", "command"} THEN Merge(seen, res.update) ELSE seen
             next == IF res.kind = "command" THEN res.goto
                     ELSE IF res.kind = "delta" THEN RouteAfter(node, vals)
                     ELSE "none"
         IN /\ h_trail' = Append(h_trail, node)
            /\ h_delta' = res.update
            /\ h_state' = vals
            /\ h_out' = [fn |-> node, to |-> next, resume |-> NoResponse]
            /\ h_pc' = IF res.kind = "raise" \/ next = "AttributeError" THEN "error"
                       ELSE IF res.kind = "interrupt" THEN "suspended"
                       ELSE IF next = END THEN "done"
                       ELSE "ready"
    /\ RuntimeUnchanged

\* resume(thread_id, human_response) on the suspended thread.
RunResume(human_response) ==
    /\ h_pc = "suspended"
    /\ Len(SelectSeq(h_trail, LAMBDA n : n = "resume")) < MaxResumes
    /\ h_pc' = "ready"
    /\ h_out' = [fn |-> "resume", to |-> "governor", resume |-> human_response]
    /\ h_trail' = Append(h_trail, "resume")
    /\ UNCHANGED <<h_state, h_delta>>
    /\ RuntimeUnchanged

RunNext ==
    \/ RunStep
    \/ \E hr \in RunResponses : RunResume(hr)

SpecRun == RunInit /\ [][RunNext]_vars

-----------------------------------------------------------------------------
(* Properties *)

LastTrace(state) == state.decision_traces[Len(state.decision_traces)]

HasApprovedGovernorTrace(state) ==
    \E i \in 1..Len(state.decision_traces) :
        /\ state.decision_traces[i].agent_id = "governor"
        /\ state.decision_traces[i].approved

\* C1: the Finalizer is dispatched only directly after a Governor step that
\* was resumed with approved = true, and only in a run that was resumed from
\* a suspension at the Governor; every checkpoint with current_phase =
\* complete has governor_approval = true and an approved governor trace.
C1_FinalizeOnlyAfterApprovedResume ==
    /\ \A r \in RunIds :
          (runs[r].pc # "free" /\ runs[r].node = "finalize") =>
              /\ runs[r].vals.governor_approval = "true"
              /\ Len(runs[r].vals.decision_traces) > 0
              /\ LastTrace(runs[r].vals).agent_id = "governor"
              /\ LastTrace(runs[r].vals).approved
              /\ runs[r].kind = "resume"
              /\ runs[r].from_interrupt
    /\ \A t \in Threads :
          (store[t].exists /\ store[t].vals.current_phase = "complete") =>
              /\ store[t].vals.governor_approval = "true"
              /\ HasApprovedGovernorTrace(store[t].vals)

ResumeCalled(t) ==
    \E r \in RunIds : runs[r].pc # "free" /\ runs[r].tid = t /\ runs[r].kind = "resume"

\* C2: only the Governor suspends; while a thread is suspended and resume
\* has not been called for it, no step of the thread is dispatched and its
\* checkpoint does not change; the step a resume run of the suspended thread
\* dispatches first is the Governor with the human response bound.
C2_SuspendedUntilResumed ==
    [][\A t \in Threads :
         /\ (store[t].exists /\ store[t].interrupted) => store[t].next = "governor"
         /\ (store[t].exists /\ store[t].interrupted /\ store'[t].exists /\ ~ResumeCalled(t)') =>
                /\ store'[t] = store[t]
                /\ \A r \in RunIds :
                      (runs'[r].pc = "running" /\ runs'[r].tid = t) => runs[r].pc = "running"
         /\ \A r \in RunIds :
               (runs[r].pc = "created" /\ runs[r].kind = "resume" /\ runs[r].tid = t
                  /\ store[t].exists /\ store[t].interrupted /\ runs'[r].pc = "ready") =>
                   (runs'[r].node = "governor" /\ ~runs'[r].resume.null)]_vars

\* C3: at most one step of a thread_id is in flight at any time.
C3_OneStepInFlight ==
    \A t \in Threads : Cardinality(InFlight(t)) <= 1

\* C4: a thread suspended at the Governor before a process restart can be
\* resumed after it from the same checkpoint: the restart leaves the
\* suspended thread's state and pending step in place, so the resume call is
\* accepted and continues as it would have without the restart.
C4_ResumeAcrossRestart ==
    [][Restart =>
         \A t \in Threads :
             (store[t].exists /\ store[t].interrupted) =>
                 /\ ResumePending(t)'
                 /\ store'[t].vals = store[t].vals
                 /\ store'[t].next = store[t].next]_vars

C5_AppendFields ==
    {"decision_traces", "ui_events", "error_log", "settlements", "risk_scores",
     "fhir_observations", "edutech_hints"}

\* C5: along the checkpoint history of a thread every append field keeps its
\* previous list as a prefix: it never shrinks and never reorders.
C5_AppendOnlyHistory ==
    [][\A t \in Threads :
         (store[t].exists /\ store'[t].exists) =>
             \A f \in C5_AppendFields : IsPrefix(store[t].vals[f], store'[t].vals[f])]_vars

C6_AppendFields == C5_AppendFields \cup {"messages"}

\* C6: the merge leaves a field absent from the delta unchanged, sets a
\* replace field present in the delta to the delta's value, and sets an
\* append field present in the delta to the old list followed by the
\* delta's list.
C6_MergeFrameAndEffect ==
    h_pc = "merged" =>
        \A f \in AllFields :
            IF f \notin DOMAIN h_delta THEN h_out[f] = h_state[f]
            ELSE IF f \in C6_AppendFields
                THEN /\ Len(h_out[f]) = Len(h_state[f]) + Len(h_delta[f])
                     /\ \A i \in 1..Len(h_state[f]) : h_out[f][i] = h_state[f][i]
                     /\ \A i \in 1..Len(h_delta[f]) : h_out[f][Len(h_state[f]) + i] = h_delta[f][i]
            ELSE h_out[f] = h_delta[f]

C6_Witness ==
    /\ h_pc = "merged"
    /\ DOMAIN h_delta = {"decision_traces", "current_phase"}
    /\ Len(h_state.decision_traces) = 2
    /\ Len(h_delta.decision_traces) = 2
    /\ h_state.decision_traces # h_delta.decision_traces
    /\ h_state.current_phase # h_delta.current_phase
    /\ h_state.settlements # << >>

RECURSIVE Dispatches(_, _)
Dispatches(trail, node) ==
    IF Len(trail) = 0 THEN 0
    ELSE (IF Head(trail) = node THEN 1 ELSE 0) + Dispatches(Tail(trail), node)

\* C7: after a Jurist citation failure the router returns end when
\* iteration_count >= 5 and the Detector otherwise; within one run the
\* Detector is dispatched at most 5 times, and the run leaves the loop.
C7_LoopTerminates ==
    /\ [](/\ Dispatches(h_trail, "vanguard") <= 5
          /\ (h_out.fn = "jurist" /\ h_state.current_phase = "citation_failure") =>
                 h_out.to = (IF h_state.iteration_count >= 5 THEN END ELSE "vanguard"))
    /\ <>(h_pc = "done")

C7_Witness ==
    /\ h_pc = "done"
    /\ h_out.fn = "jurist"
    /\ h_out.to = END
    /\ h_state.current_phase = "citation_failure"
    /\ h_state.iteration_count = 5
    /\ Dispatches(h_trail, "vanguard") = 0

\* C8: the router after the Jurist returns, in priority order: on
\* citation_failure, end if iteration_count >= 5 and the Detector otherwise;
\* else governor when compliance_report.status is non_compliant; else
\* architect.
C8_JuristRouterPriority ==
    (h_pc = "returned" /\ h_out.fn = "route_after_jurist") =>
        h_out.to =
            (IF h_state.current_phase = "citation_failure"
                THEN (IF h_state.iteration_count >= 5 THEN END ELSE "vanguard")
             ELSE IF /\ ~h_state.compliance_report.null
                     /\ h_state.compliance_report.has_status
                     /\ h_state.compliance_report.status = "non_compliant"
                THEN "governor"
             ELSE "architect")

\* The next-step names build_graph declares for each conditional edge.
C9_Codomain(fn) ==
    CASE fn = "route_after_vanguard" -> {"jurist", END}
      [] fn = "route_after_jurist" -> {"vanguard", "architect", "governor", END}
      [] fn = "route_after_architect" -> {"governor"}

\* C9: each router returns, without raising, a value in its declared set of
\* next-step names for every state, a null compliance_report, an empty
\* anomalies list and any current_phase included.
C9_RouterTotality ==
    h_pc = "returned" => h_out.to \in C9_Codomain(h_out.fn)

CleanScan(telemetry_data) ==
    /\ ~telemetry_data.null
    /\ telemetry_data.energy_count = 0
    /\ telemetry_data.water_count = 0

EndsAtVanguardComplete(r) ==
    LET cp == store'[runs[r].tid]
    IN /\ cp.next = END
       /\ cp.vals.current_phase = "vanguard_complete"
       /\ LastTrace(cp.vals).agent_id = "vanguard"
       /\ LastTrace(cp.vals).anomalies_found = 0
       /\ runs'[r] = FreeRun

\* C10 as stated: a Detector step that runs with no anomaly injected records
\* anomalies_found = 0, and the run ends there with current_phase =
\* vanguard_complete without dispatching the Jurist.
C10_NoInjectionNoAnomaly ==
    [][\A r \in RunIds :
         (StepEnd(r) /\ runs[r].node = "vanguard" /\ injected = NoInjection) =>
             EndsAtVanguardComplete(r)]_vars

\* C10 amended: a Detector step whose scan reports anomaly_count = 0 for
\* energy and for water records anomalies_found = 0, and the run ends there
\* with current_phase = vanguard_complete without dispatching the Jurist.
C10_CleanScanNoAnomaly ==
    [][\A r \in RunIds :
         (StepEnd(r) /\ runs[r].node = "vanguard"
            /\ CleanScan(store'[runs[r].tid].vals.telemetry_data)) =>
             EndsAtVanguardComplete(r)]_vars

C10_Witness ==
    \E t \in Threads :
        /\ store[t].exists
        /\ store[t].next = END
        /\ store[t].vals.current_phase = "vanguard_complete"
        /\ CleanScan(store[t].vals.telemetry_data)
        /\ LastTrace(store[t].vals).anomalies_found = 0
        /\ RunsOf(t) = {}

C11_Present(citations) ==
    /\ Len(citations) > 0
    /\ \A i \in 1..Len(citations) : citations[i].hash_len = 64

C11_FailureDelta ==
    /\ h_delta.current_phase = "citation_failure"
    /\ "error_log" \in DOMAIN h_delta /\ Len(h_delta.error_log) = 1
    /\ "ui_events" \in DOMAIN h_delta /\ Len(h_delta.ui_events) = 1
    /\ h_delta.ui_events[1].severity = "high"
    /\ "compliance_report" \in DOMAIN h_delta /\ h_delta.compliance_report.null
    /\ "decision_traces" \notin DOMAIN h_delta

\* C11 as stated: when the citations are not present the Jurist's delta sets
\* current_phase = citation_failure, appends one error_log entry and one
\* warning UI event, nulls compliance_report and appends no trace, and the
\* router sends the thread back to the Detector.
C11_CitationFailureBackToDetector ==
    (h_out.fn = "jurist" /\ ~C11_Present(h_state.citations)) =>
        (C11_FailureDelta /\ h_out.to = "vanguard")

\* C11 amended: the same delta, and the router sends the thread back to the
\* Detector when iteration_count < 5 and ends it when iteration_count >= 5.
C11_CitationFailureDelta ==
    (h_out.fn = "jurist" /\ ~C11_Present(h_state.citations)) =>
        /\ C11_FailureDelta
        /\ h_out.to = (IF h_state.iteration_count >= 5 THEN END ELSE "vanguard")

C11_Witness ==
    /\ h_out.fn = "jurist"
    /\ h_out.to = "vanguard"
    /\ h_pc = "ready"
    /\ ~C11_Present(h_state.citations)
    /\ h_state.current_phase = "citation_failure"
    /\ h_state.error_log = h_delta.error_log
    /\ h_state.compliance_report.null

C12_SomeCheckRejects(state) ==
    \E i \in 1..Len(state.anomalies) : state.anomalies[i].severity = "unacceptable"

\* C12: when a per-anomaly compliance check rejects, the Jurist finishes with
\* phase jurist_complete and status non_compliant and the thread goes
\* directly to the Governor, which raises its interrupt: the thread suspends.
C12_NonCompliantSuspendsAtGovernor ==
    /\ (h_out.fn = "jurist" /\ C11_Present(h_state.citations) /\ C12_SomeCheckRejects(h_state)) =>
           /\ h_state.current_phase = "jurist_complete"
           /\ ~h_state.compliance_report.null
           /\ h_state.compliance_report.status = "non_compliant"
           /\ h_out.to = "governor"
    /\ (h_out.fn = "governor" /\ Len(h_trail) >= 2 /\ h_trail[Len(h_trail) - 1] = "jurist") =>
           h_pc = "suspended"

C13_Approved(hr) == hr.has_approved /\ hr.approved

\* C13: on resume the Governor returns goto = finalize with
\* governor_approval = true and phase governor_approved iff the response has
\* approved = true; otherwise goto = architect with governor_approval =
\* false, phase governor_rejected and simulation_result equal to the previous
\* one with roi_adjustment overwritten by the human-supplied value.
C13_GovernorCommand ==
    [][(h_pc = "ready" /\ h_out.to = "governor" /\ ~h_out.resume.null) =>
         IF C13_Approved(h_out.resume)
            THEN /\ h_out'.to = "finalize"
                 /\ h_delta'.governor_approval = "true"
                 /\ h_delta'.current_phase = "governor_approved"
            ELSE /\ h_out'.to = "architect"
                 /\ h_delta'.governor_approval = "false"
                 /\ h_delta'.current_phase = "governor_rejected"
                 /\ h_delta'.simulation_result.monthly_savings_usd
                        = h_state.simulation_result.monthly_savings_usd
                 /\ h_delta'.simulation_result.null = h_state.simulation_result.null
                 /\ h_out.resume.has_roi =>
                        h_delta'.simulation_result.roi_adjustment = h_out.resume.roi_adjustment]_vars

C13_Witness ==
    /\ h_out.fn = "governor"
    /\ h_out.to = "architect"
    /\ h_state.governor_approval = "false"
    /\ h_state.current_phase = "governor_rejected"
    /\ h_state.simulation_result.roi_adjustment = 1500
    /\ h_state.simulation_result.monthly_savings_usd > 0

C14_RejectedArchitectStep ==
    h_pc = "ready" /\ h_out.to = "architect" /\ h_state.governor_approval = "false"

C14_Tightened ==
    /\ h_state'.simulation_result.roi_adjustment * 10 = h_state.simulation_result.roi_adjustment * 9
    /\ h_out'.to = "governor"

C14_Resuspends ==
    (h_pc = "ready" /\ h_out.to = "governor" /\ h_out.fn = "architect") => h_pc' = "suspended"

\* C14 as stated: after a rejecting resume the next Architect dispatch uses
\* 0.9 times the roi_adjustment held in simulation_result, and the thread
\* re-reaches the Governor suspension with monthly_savings_usd lower than at
\* the previous suspension.
C14_RejectionLowersSavings ==
    [][/\ C14_RejectedArchitectStep =>
            /\ C14_Tightened
            /\ h_state'.simulation_result.monthly_savings_usd
                   < h_state.simulation_result.monthly_savings_usd
       /\ C14_Resuspends]_vars

\* The adjustment the Architect last simulated with (its latest trace).
C14_PreviousAdjustment(state) ==
    LET idx == { i \in 1..Len(state.decision_traces) :
                    state.decision_traces[i].agent_id = "architect" }
        last == CHOOSE i \in idx : \A j \in idx : j <= i
    IN state.decision_traces[last].roi_adjustment

\* C14 amended: the next Architect dispatch uses 0.9 times the held
\* roi_adjustment and the thread re-reaches the Governor suspension;
\* monthly_savings_usd is lower than at the previous suspension exactly when
\* that adjustment is lower than the one of the previous simulation.
C14_RejectionRescalesSavings ==
    [][/\ C14_RejectedArchitectStep =>
            /\ C14_Tightened
            /\ (h_state'.simulation_result.monthly_savings_usd
                    < h_state.simulation_result.monthly_savings_usd)
               <=> (h_state'.simulation_result.roi_adjustment
                        < C14_PreviousAdjustment(h_state))
       /\ C14_Resuspends]_vars

C14_Witness ==
    /\ h_pc = "suspended"
    /\ h_out.fn = "governor"
    /\ h_state.governor_approval = "false"
    /\ h_state.simulation_result.roi_adjustment = 720
    /\ Len(SelectSeq(h_trail, LAMBDA n : n = "architect")) = 2

-----------------------------------------------------------------------------
(* NHI decision traces (nhi/signing.py).  An Ed25519 private key is named   *)
(* by its secret; a signature is valid for exactly the (key, message) pair  *)
(* it was made from, and SHA-256 is taken as collision free.  A base-64     *)
(* text is its decoded bytes plus what the decoder looks at: characters     *)
(* outside the alphabet, which b64decode discards, and the padding, which   *)
(* it rejects when wrong.                                                   *)

MaxKeys == 3
MaxDiscarded == 1

KeyIds == 1..MaxKeys
SignAgents == {"vanguard", "jurist"}
Timestamps == {"t1", "t2"}
Decisions == {"original", "tampered"}

PrivateKey(k) == [secret |-> k]

PublicKeyOf(private_key) == [public |-> private_key.secret]

Canonicalise(payload) ==
    <<"agent_id", payload.agent_id, "decision", payload.decision,
      "timestamp", payload.timestamp>>

Sha256Hex(bytes) == [digest_of |-> bytes]

Ed25519Sign(private_key, message) ==
    [signer |-> private_key.secret, message |-> message]

Ed25519Verify(public_key, sig_bytes, message) ==
    sig_bytes.signer = public_key.public /\ sig_bytes.message = message

B64Encode(bytes) == [data |-> bytes, discarded |-> 0, padding_ok |-> TRUE]

B64Decode(text) == [ok |-> text.padding_ok, bytes |-> text.data]

Signable(trace) ==
    [agent_id |-> trace.agent_id, timestamp |-> trace.timestamp,
     decision |-> trace.decision]

SignDecisionTraceHashDecisionOnly(agent_id, timestamp, decision, private_key) ==
    LET signable == [agent_id |-> agent_id, timestamp |-> timestamp, decision |-> decision]
        canonical == Canonicalise(signable)
    IN  [agent_id |-> agent_id, timestamp |-> timestamp, decision |-> decision,
         payload_hash |-> Sha256Hex(<<"decision", decision>>),
         signature |-> B64Encode(Ed25519Sign(private_key, canonical))]

SignDecisionTrace(agent_id, timestamp, decision, private_key) ==
    LET signable == [agent_id |-> agent_id, timestamp |-> timestamp, decision |-> decision]
        canonical == Canonicalise(signable)
    IN  [agent_id |-> agent_id, timestamp |-> timestamp, decision |-> decision,
         payload_hash |-> Sha256Hex(canonical),
         signature |-> B64Encode(Ed25519Sign(private_key, canonical))]

\* Hash comparison first; then decode and verify inside the try block, where
\* binascii.Error and InvalidSignature both end in "return False".
VerifyDecisionTrace(trace, public_key) ==
    LET canonical == Canonicalise(Signable(trace))
        expected_hash == Sha256Hex(canonical)
    IN  IF expected_hash # trace.payload_hash THEN FALSE
        ELSE LET decoded == B64Decode(trace.signature)
             IN  IF ~decoded.ok THEN FALSE
                 ELSE Ed25519Verify(public_key, decoded.bytes, canonical)

(* Harness: sign one decision, optionally change one field of the trace or  *)
(* the verification key, then verify.                                       *)

SignPayloads ==
    [agent_id : SignAgents, timestamp : Timestamps, decision : Decisions]

HashInputs ==
    { Sha256Hex(Canonicalise(p)) : p \in SignPayloads } \cup { Sha256Hex(<<>>) }

SignatureInputs ==
    { [data |-> Ed25519Sign(PrivateKey(k), Canonicalise(p)), discarded |-> n, padding_ok |-> b] :
        k \in KeyIds, p \in SignPayloads, n \in 0..MaxDiscarded, b \in BOOLEAN }

TraceFields == {"agent_id", "timestamp", "decision", "payload_hash", "signature"}

TamperInputs(field) ==
    CASE field = "agent_id" -> SignAgents
      [] field = "timestamp" -> Timestamps
      [] field = "decision" -> Decisions
      [] field = "payload_hash" -> HashInputs
      [] field = "signature" -> SignatureInputs

NoTamper == [field |-> "none"]

SignInit ==
    /\ RuntimeInit
    /\ h_pc = "unsigned"
    /\ h_state \in [agent_id : SignAgents, timestamp : Timestamps,
                    decision : Decisions, private_key : { PrivateKey(k) : k \in KeyIds }]
    /\ h_delta = NoTamper
    /\ h_out = [fn |-> "none"]
    /\ h_trail = <<>>

SignStep ==
    /\ h_pc = "unsigned"
    /\ h_pc' = "signed"
    /\ h_out' = [fn |-> "sign",
                 trace |-> SignDecisionTrace(h_state.agent_id, h_state.timestamp,
                                             h_state.decision, h_state.private_key),
                 public_key |-> PublicKeyOf(h_state.private_key),
                 verified |-> FALSE]
    /\ h_trail' = Append(h_trail, "sign")
    /\ UNCHANGED <<h_state, h_delta>>
    /\ RuntimeUnchanged

TamperField(field) ==
    /\ h_pc = "signed"
    /\ \E value \in TamperInputs(field) :
        /\ value # h_out.trace[field]
        /\ h_out' = [h_out EXCEPT !.fn = "tamper", !.trace[field] = value]
        /\ h_delta' = [field |-> field]
    /\ h_pc' = "tampered"
    /\ h_trail' = Append(h_trail, "tamper")
    /\ UNCHANGED h_state
    /\ RuntimeUnchanged

UseOtherKey ==
    /\ h_pc = "signed"
    /\ \E k \in KeyIds :
        /\ PublicKeyOf(PrivateKey(k)) # h_out.public_key
        /\ h_out' = [h_out EXCEPT !.fn = "tamper", !.public_key = PublicKeyOf(PrivateKey(k))]
    /\ h_delta' = [field |-> "public_key"]
    /\ h_pc' = "tampered"
    /\ h_trail' = Append(h_trail, "tamper")
    /\ UNCHANGED h_state
    /\ RuntimeUnchanged

VerifyStep ==
    /\ h_pc \in {"signed", "tampered"}
    /\ h_pc' = "verified"
    /\ h_out' = [h_out EXCEPT !.fn = "verify",
                              !.verified = VerifyDecisionTrace(h_out.trace, h_out.public_key)]
    /\ h_trail' = Append(h_trail, "verify")
    /\ UNCHANGED <<h_state, h_delta>>
    /\ RuntimeUnchanged

SignNext ==
    \/ SignStep
    \/ \E field \in TraceFields : TamperField(field)
    \/ UseOtherKey
    \/ VerifyStep

SpecSign == SignInit /\ [][SignNext]_vars

\* C15: for every agent and decision, a trace signed with the agent's
\* private key verifies under the matching public key.
C15_SignThenVerify ==
    (h_pc = "verified" /\ h_delta.field = "none") => h_out.verified

C15_Witness ==
    /\ h_pc = "verified"
    /\ h_delta.field = "none"
    /\ h_out.verified
    /\ h_out.trace.agent_id = "jurist"
    /\ h_out.trace.decision = "original"

\* C16 as stated: changing any one field of a signed trace to a different
\* value, or verifying under another key, makes verify return false.
C16_TamperDetected ==
    (h_pc = "verified" /\ h_delta.field # "none") => ~h_out.verified

-----------------------------------------------------------------------------
(* NHI identity store (nhi/keys.py): one PEM file per agent id under        *)
(* settings.keys_path.  A file is named by the secret it holds, 0 when the  *)
(* file does not exist.  Callers are the threads and processes that call    *)
(* generate_agent_keypair (the agent nodes on FileNotFoundError) and        *)
(* ensure_all_agent_keys (main.py at process start); path.exists() and      *)
(* path.write_bytes() are separate steps of a caller, and nothing locks     *)
(* the file between them.                                                   *)

MaxFresh == 5

Callers == {"c1", "c2"}
EnsureAgents == <<"vanguard", "jurist", "architect", "governor">>
AgentIds == { EnsureAgents[i] : i \in 1..Len(EnsureAgents) }
GenerateAgents == {"vanguard"}

NoKey == 0

IdleCaller ==
    [pc |-> "idle", fn |-> "none", agent_id |-> "none", overwrite |-> FALSE,
     seen |-> NoKey, private |-> NoKey, public |-> NoKey, todo |-> <<>>]

KeyStoreInit ==
    /\ RuntimeInit
    /\ h_pc = "running"
    /\ h_state = [files |-> [a \in AgentIds |-> NoKey], fresh |-> 1, forced |-> {}]
    /\ h_delta = [c \in Callers |-> IdleCaller]
    /\ h_out = [fn |-> "none", caller |-> "none"]
    /\ h_trail = <<>>

CallerAtRest(c) == h_delta[c].pc \in {"idle", "returned"} /\ h_delta[c].todo = <<>>

KeyStoreFrame(c, fn) ==
    /\ h_out' = [fn |-> fn, caller |-> c]
    /\ UNCHANGED <<h_pc, h_trail>>
    /\ RuntimeUnchanged

\* generate_agent_keypair(agent_id, overwrite=...) is called.
GenerateCall(c, agent_id, overwrite) ==
    /\ CallerAtRest(c)
    /\ h_delta' = [h_delta EXCEPT ![c] =
            [IdleCaller EXCEPT !.pc = "check", !.fn = "generate",
                               !.agent_id = agent_id, !.overwrite = overwrite]]
    /\ h_state' = [h_state EXCEPT !.forced = IF overwrite THEN @ \cup {agent_id} ELSE @]
    /\ KeyStoreFrame(c, "call")

\* ensure_all_agent_keys() is called: generate for each id of the list in turn.
EnsureAllCall(c) ==
    /\ CallerAtRest(c)
    /\ h_delta' = [h_delta EXCEPT ![c] =
            [IdleCaller EXCEPT !.pc = "check", !.fn = "ensure_all",
                               !.agent_id = Head(EnsureAgents),
                               !.todo = Tail(EnsureAgents)]]
    /\ UNCHANGED h_state
    /\ KeyStoreFrame(c, "call")

EnsureAllNext(c) ==
    /\ h_delta[c].pc = "returned"
    /\ h_delta[c].todo # <<>>
    /\ h_delta' = [h_delta EXCEPT ![c].pc = "check",
                                  ![c].agent_id = Head(h_delta[c].todo),
                                  ![c].todo = Tail(h_delta[c].todo),
                                  ![c].seen = NoKey,
                                  ![c].private = NoKey, ![c].public = NoKey]
    /\ UNCHANGED h_state
    /\ KeyStoreFrame(c, "next")

GenerateCheckAlwaysWrite(c) ==
    /\ h_delta[c].pc = "check"
    /\ LET seen == h_state.files[h_delta[c].agent_id]
       IN  h_delta' = [h_delta EXCEPT ![c].seen = seen, ![c].pc = "write"]
    /\ UNCHANGED h_state
    /\ KeyStoreFrame(c, "check")

\* if path.exists() and not overwrite
GenerateCheck(c) ==
    /\ h_delta[c].pc = "check"
    /\ LET seen == h_state.files[h_delta[c].agent_id]
       IN  h_delta' = [h_delta EXCEPT ![c].seen = seen,
                                      ![c].pc = IF seen # NoKey /\ ~h_delta[c].overwrite
                                                THEN "load_private" ELSE "write"]
    /\ UNCHANGED h_state
    /\ KeyStoreFrame(c, "check")

\* load_private_key(agent_id): FileNotFoundError when the file is missing.
LoadPrivateKey(c) ==
    /\ h_delta[c].pc = "load_private"
    /\ LET key == h_state.files[h_delta[c].agent_id]
       IN  h_delta' = [h_delta EXCEPT ![c].private = key,
                                      ![c].pc = IF key = NoKey THEN "raised" ELSE "load_public"]
    /\ UNCHANGED h_state
    /\ KeyStoreFrame(c, "load_private")

\* load_public_key(agent_id) reads the file again and derives the public half.
LoadPublicKey(c) ==
    /\ h_delta[c].pc = "load_public"
    /\ LET key == h_state.files[h_delta[c].agent_id]
       IN  h_delta' = [h_delta EXCEPT ![c].public = key,
                                      ![c].pc = IF key = NoKey THEN "raised" ELSE "returned"]
    /\ UNCHANGED h_state
    /\ KeyStoreFrame(c, "load_public")

\* Ed25519PrivateKey.generate(); path.write_bytes(pem); return the new pair.
GenerateWrite(c) ==
    /\ h_delta[c].pc = "write"
    /\ h_state.fresh <= MaxFresh
    /\ h_state' = [h_state EXCEPT !.files[h_delta[c].agent_id] = h_state.fresh,
                                  !.fresh = @ + 1]
    /\ h_delta' = [h_delta EXCEPT ![c].private = h_state.fresh,
                                  ![c].public = h_state.fresh,
                                  ![c].pc = "returned"]
    /\ KeyStoreFrame(c, "write")

\* The process ends and a new one starts: callers are gone, key files stay.
ProcessStart ==
    /\ \E c \in Callers : h_delta[c].pc # "idle"
    /\ h_delta' = [c \in Callers |-> IdleCaller]
    /\ UNCHANGED h_state
    /\ KeyStoreFrame("none", "process_start")

KeyStoreNext ==
    \/ \E c \in Callers, agent_id \in GenerateAgents, overwrite \in BOOLEAN :
            GenerateCall(c, agent_id, overwrite)
    \/ \E c \in Callers : EnsureAllCall(c)
    \/ \E c \in Callers : EnsureAllNext(c)
    \/ \E c \in Callers : GenerateCheck(c)
    \/ \E c \in Callers : LoadPrivateKey(c)
    \/ \E c \in Callers : LoadPublicKey(c)
    \/ \E c \in Callers : GenerateWrite(c)
    \/ ProcessStart

SpecKeyStore == KeyStoreInit /\ [][KeyStoreNext]_vars

(* Properties of the identity store *)

KeyStoreMoved(c, fn) == h_out'.caller = c /\ h_out'.fn = fn

KeyFile(c) == h_state.files[h_delta[c].agent_id]

\* C19: generate without overwrite on an id whose key file exists loads and
\* returns the persisted key and leaves the file unchanged; with overwrite
\* it replaces the file with a new key and returns that key; ensure_all
\* writes a file only for an id that had none, in every call and after
\* every process start, which leaves the files as they are.
C19_GenerateIdempotent ==
    [][/\ \A c \in Callers :
            /\ (KeyStoreMoved(c, "check") /\ KeyFile(c) # NoKey /\ ~h_delta[c].overwrite)
                    => (h_delta'[c].pc = "load_private" /\ h_state' = h_state)
            /\ KeyStoreMoved(c, "load_private")
                    => (h_delta'[c].private = KeyFile(c) /\ h_state' = h_state)
            /\ KeyStoreMoved(c, "load_public")
                    => (h_delta'[c].public = KeyFile(c) /\ h_state' = h_state)
            /\ (KeyStoreMoved(c, "check") /\ h_delta[c].overwrite)
                    => h_delta'[c].pc = "write"
            /\ (KeyStoreMoved(c, "write") /\ h_delta[c].overwrite)
                    => /\ h_state'.files[h_delta[c].agent_id] # KeyFile(c)
                       /\ \A a \in AgentIds :
                            h_state'.files[h_delta[c].agent_id] # h_state.files[a]
                       /\ h_delta'[c].private = h_state'.files[h_delta[c].agent_id]
                       /\ h_delta'[c].public = h_delta'[c].private
            /\ (KeyStoreMoved(c, "write") /\ h_delta[c].fn = "ensure_all")
                    => h_delta[c].seen = NoKey
       /\ h_out'.fn = "process_start" => h_state'.files = h_state.files]_vars

C19_Witness ==
    /\ h_out.fn = "load_public"
    /\ \E c \in Callers :
        /\ h_out.caller = c
        /\ h_delta[c].fn = "ensure_all"
        /\ h_delta[c].pc = "returned"
        /\ h_delta[c].todo = <<>>
        /\ h_delta[c].seen # NoKey
        /\ h_delta[c].private = h_delta[c].seen
        /\ h_delta[c].public = h_delta[c].seen
        /\ h_state.files[h_delta[c].agent_id] = h_delta[c].seen
    /\ \A a \in AgentIds : h_state.files[a] # NoKey
    /\ h_state.forced # {}

KeyStoreQuiescent ==
    \A c \in Callers : h_delta[c].pc \in {"idle", "returned", "raised"} /\ h_delta[c].todo = <<>>

\* C20 as stated: under concurrent generate calls for one id (none of them
\* with overwrite) every caller returns the keypair that ends up persisted,
\* so a trace signed with a returned private key verifies under the public
\* key later loaded from the store.
C20_FirstWriterWins ==
    \A c \in Callers :
        (/\ KeyStoreQuiescent
         /\ h_delta[c].pc = "returned"
         /\ h_delta[c].agent_id \notin h_state.forced)
        => /\ h_delta[c].private = KeyFile(c)
           /\ VerifyDecisionTrace(
                  SignDecisionTrace(h_delta[c].agent_id, "t1", "original",
                                    PrivateKey(h_delta[c].private)),
                  PublicKeyOf(PrivateKey(KeyFile(c))))

-----------------------------------------------------------------------------
(* Citation middleware (nhi/middleware.py) applied to lists of citation     *)
(* blocks.  A data_hash is summarised by its length and by whether all its  *)
(* characters are hexadecimal digits; CitationBlock.data_hash is any str.   *)

MaxCitations == 2

HashLens == {0, Sha256HexLen - 1, Sha256HexLen, Sha256HexLen + 1}

CitationBlock(source_id, hash_len, hash_hex) ==
    [source_id |-> source_id, hash_len |-> hash_len, hash_hex |-> hash_hex]

\* cite_data_source: hashlib.sha256(raw).hexdigest()
CitedBlock(source_id) == CitationBlock(source_id, Sha256HexLen, TRUE)

CitationBlocks ==
    { CitationBlock("bms:energy:HQ-01", n, x) : n \in HashLens, x \in BOOLEAN }

CitationLists ==
    UNION { [1..n -> CitationBlocks] : n \in 0..MaxCitations }

CitationsInit ==
    /\ RuntimeInit
    /\ h_pc = "ready"
    /\ h_state \in CitationLists
    /\ h_delta = <<>>
    /\ h_out = [fn |-> "none", present |-> FALSE]
    /\ h_trail = <<>>

\* A node cites one more source before the check.
CiteStep ==
    /\ h_pc = "ready"
    /\ Len(h_state) < MaxCitations
    /\ h_state' = Append(h_state, CitedBlock("bms:water:HQ-01"))
    /\ h_trail' = Append(h_trail, "cite")
    /\ UNCHANGED <<h_pc, h_delta, h_out>>
    /\ RuntimeUnchanged

PresentStep ==
    /\ h_pc = "ready"
    /\ h_pc' = "checked"
    /\ h_out' = [fn |-> "verify_citations_present",
                 present |-> VerifyCitationsPresent(h_state)]
    /\ h_trail' = Append(h_trail, "present")
    /\ UNCHANGED <<h_state, h_delta>>
    /\ RuntimeUnchanged

CitationsNext == CiteStep \/ PresentStep

SpecCitations == CitationsInit /\ [][CitationsNext]_vars

\* C18 as stated: present(citations) is true exactly when the list is
\* non-empty and every data_hash is a 64-character hexadecimal string.
C18_PresentIffAllHex64 ==
    h_pc = "checked" =>
        (h_out.present <=>
            /\ Len(h_state) > 0
            /\ \A i \in 1..Len(h_state) :
                  h_state[i].hash_len = 64 /\ h_state[i].hash_hex)

-----------------------------------------------------------------------------
(* GET /api/traces/{thread_id} (api/routes.py get_traces) over the decision *)
(* traces of one thread and the identity store as ensure_all_agent_keys     *)
(* leaves it.  The traces are the dicts the agent nodes appended (the dump  *)
(* of a signed DecisionTrace); one field of one of them may have been       *)
(* changed since.                                                          *)

MaxTraces == 2

EmptyText == [data |-> [signer |-> NoKey, message |-> <<>>], discarded |-> 0, padding_ok |-> TRUE]
EmptyHash == [digest_of |-> <<>>]

Truthy(value, empty) == value # empty

StoredKeys == [a \in AgentIds |-> CHOOSE i \in 1..Len(EnsureAgents) : EnsureAgents[i] = a]

TraceAgentInputs == SignAgents \cup {"intruder"}

TraceTamperInputs(field) ==
    IF field = "agent_id" THEN TraceAgentInputs
    ELSE IF field = "signature" THEN SignatureInputs \cup {EmptyText}
    ELSE IF field = "payload_hash" THEN HashInputs \cup {EmptyHash}
    ELSE TamperInputs(field)

\* load_public_key over the key files: FileNotFoundError when there is none.
LoadPublicKeyFrom(files, agent_id) ==
    IF agent_id \in DOMAIN files /\ files[agent_id] # NoKey
    THEN [raised |-> FALSE, key |-> PublicKeyOf(PrivateKey(files[agent_id]))]
    ELSE [raised |-> TRUE, key |-> PublicKeyOf(PrivateKey(NoKey))]

\* The body of the loop of get_traces: verified starts False; inside the try
\* the key is loaded and the trace verified; any exception sets verified to
\* bool(signature and payload_hash).
TraceVerified(files, t) ==
    IF t.agent_id # "" /\ Truthy(t.signature, EmptyText) /\ Truthy(t.payload_hash, EmptyHash)
    THEN LET pub_key == LoadPublicKeyFrom(files, t.agent_id)
         IN  IF pub_key.raised
             THEN Truthy(t.signature, EmptyText) /\ Truthy(t.payload_hash, EmptyHash)
             ELSE VerifyDecisionTrace(t, pub_key.key)
    ELSE FALSE

GetTraces(files, traces) ==
    [i \in 1..Len(traces) |-> [trace |-> traces[i], verified |-> TraceVerified(files, traces[i])]]

TracesInit ==
    /\ RuntimeInit
    /\ h_pc = "running"
    /\ h_state = [files |-> StoredKeys, decision_traces |-> <<>>]
    /\ h_delta = [index |-> 0, field |-> "none"]
    /\ h_out = [fn |-> "none", traces |-> <<>>]
    /\ h_trail = <<>>

\* An agent node loads its private key, signs its decision and appends the trace.
AppendTrace(agent_id, decision) ==
    /\ h_pc = "running"
    /\ Len(h_state.decision_traces) < MaxTraces
    /\ LET timestamp == IF Len(h_state.decision_traces) = 0 THEN "t1" ELSE "t2"
           trace == SignDecisionTrace(agent_id, timestamp, decision,
                                      PrivateKey(h_state.files[agent_id]))
       IN  h_state' = [h_state EXCEPT !.decision_traces = Append(@, trace)]
    /\ h_out' = [fn |-> "sign", traces |-> <<>>]
    /\ h_trail' = Append(h_trail, agent_id)
    /\ UNCHANGED <<h_pc, h_delta>>
    /\ RuntimeUnchanged

\* One field of one stored trace is changed after signing.
MutateTrace(i, field) ==
    /\ h_pc = "running"
    /\ h_delta.index = 0
    /\ i \in 1..Len(h_state.decision_traces)
    /\ \E value \in TraceTamperInputs(field) :
        /\ value # h_state.decision_traces[i][field]
        /\ h_state' = [h_state EXCEPT !.decision_traces[i][field] = value]
    /\ h_delta' = [index |-> i, field |-> field]
    /\ h_out' = [fn |-> "mutate", traces |-> <<>>]
    /\ h_trail' = Append(h_trail, "mutate")
    /\ UNCHANGED h_pc
    /\ RuntimeUnchanged

GetTracesStep ==
    /\ h_pc = "running"
    /\ h_pc' = "served"
    /\ h_out' = [fn |-> "get_traces",
                 traces |-> GetTraces(h_state.files, h_state.decision_traces)]
    /\ h_trail' = Append(h_trail, "get_traces")
    /\ UNCHANGED <<h_state, h_delta>>
    /\ RuntimeUnchanged

TracesNext ==
    \/ \E agent_id \in SignAgents, decision \in Decisions : AppendTrace(agent_id, decision)
    \/ \E i \in 1..MaxTraces, field \in TraceFields : MutateTrace(i, field)
    \/ GetTracesStep

SpecTraces == TracesInit /\ [][TracesNext]_vars

\* Verification of a stored trace against the identity store succeeded.
C17_VerificationSucceeds(t) ==
    /\ ~LoadPublicKeyFrom(h_state.files, t.agent_id).raised
    /\ VerifyDecisionTrace(t, LoadPublicKeyFrom(h_state.files, t.agent_id).key)

\* C17 as stated: traces(thread_id) returns every decision trace, with
\* verified = true exactly when verify(trace, public key of trace.agent_id
\* from the identity store) is true; no trace is marked verified without a
\* successful verification.
C17_VerifiedIffVerifies ==
    h_pc = "served" =>
        /\ Len(h_out.traces) = Len(h_state.decision_traces)
        /\ \A i \in 1..Len(h_out.traces) :
            /\ h_out.traces[i].trace = h_state.decision_traces[i]
            /\ h_out.traces[i].verified <=> C17_VerificationSucceeds(h_state.decision_traces[i])

-----------------------------------------------------------------------------
(* The signing section of an agent node (vanguard.py 115-131, the same in   *)
(* jurist, architect and governor): load_private_key, on FileNotFoundError  *)
(* generate_agent_keypair, then sign_decision_trace and append the trace.   *)
(* Steps of different threads run at the same time over the one keys        *)
(* directory; h_trail collects the traces the steps appended.               *)

SignStepInit ==
    /\ RuntimeInit
    /\ h_pc = "running"
    /\ h_state \in { [files |-> [a \in AgentIds |-> NoKey], fresh |-> 1, forced |-> {}],
                     [files |-> StoredKeys, fresh |-> Len(EnsureAgents) + 1, forced |-> {}] }
    /\ h_delta = [c \in Callers |-> IdleCaller]
    /\ h_out = [fn |-> "none", caller |-> "none"]
    /\ h_trail = <<>>

\* The node reaches its signing section.
SignStepCall(c, agent_id) ==
    /\ h_delta[c].pc = "idle"
    /\ h_delta' = [h_delta EXCEPT ![c] =
            [IdleCaller EXCEPT !.pc = "step_load", !.fn = "step", !.agent_id = agent_id]]
    /\ UNCHANGED h_state
    /\ KeyStoreFrame(c, "call")

\* try: pk = load_private_key(agent)
\* except FileNotFoundError: pk, _ = generate_agent_keypair(agent)
SignStepLoadKey(c) ==
    /\ h_delta[c].pc = "step_load"
    /\ LET key == h_state.files[h_delta[c].agent_id]
       IN  h_delta' = [h_delta EXCEPT
               ![c].private = key,
               ![c].fn = IF key = NoKey THEN "step_missing" ELSE "step",
               ![c].pc = IF key = NoKey THEN "check" ELSE "step_sign"]
    /\ UNCHANGED h_state
    /\ KeyStoreFrame(c, "load_private")

\* trace = sign_decision_trace(agent, decision, pk); the delta carries [trace].
SignStepSign(c) ==
    /\ \/ h_delta[c].pc = "step_sign"
       \/ h_delta[c].pc = "returned" /\ h_delta[c].fn = "step_missing"
    /\ h_trail' = Append(h_trail,
            [caller |-> c, agent_id |-> h_delta[c].agent_id,
             missing |-> (h_delta[c].fn = "step_missing"),
             trace |-> SignDecisionTrace(h_delta[c].agent_id, "t1", "original",
                                         PrivateKey(h_delta[c].private))])
    /\ h_delta' = [h_delta EXCEPT ![c].pc = "step_done"]
    /\ h_out' = [fn |-> "sign", caller |-> c]
    /\ UNCHANGED <<h_pc, h_state>>
    /\ RuntimeUnchanged

SignStepNext ==
    \/ \E c \in Callers, agent_id \in SignAgents : SignStepCall(c, agent_id)
    \/ \E c \in Callers : SignStepLoadKey(c)
    \/ \E c \in Callers : GenerateCheck(c)
    \/ \E c \in Callers : LoadPrivateKey(c)
    \/ \E c \in Callers : LoadPublicKey(c)
    \/ \E c \in Callers : GenerateWrite(c)
    \/ \E c \in Callers : SignStepSign(c)

SpecSignStep == SignStepInit /\ [][SignStepNext]_vars

\* C21 as stated: a signing step that finds no key file for its agent
\* generates and persists a keypair, still appends its signed trace, and the
\* trace verifies under the public key persisted for the agent.
C21_MissingKeyStepVerifies ==
    /\ \A c \in Callers :
          (h_delta[c].fn = "step_missing" /\ h_delta[c].pc \in {"returned", "step_done"})
              => h_state.files[h_delta[c].agent_id] # NoKey
    /\ \A i \in 1..Len(h_trail) :
          h_trail[i].missing =>
              LET pub_key == LoadPublicKeyFrom(h_state.files, h_trail[i].agent_id)
              IN  ~pub_key.raised /\ VerifyDecisionTrace(h_trail[i].trace, pub_key.key)

-----------------------------------------------------------------------------
(* Error handling of a run *)

\* The step just dispatched raised (the exception leaves graph.astream and is
\* caught in _execute / _resume).
StepRaised == h_pc = "ready" /\ h_pc' = "error" /\ h_out'.to = "none"

\* C23 as stated: when a step raises, the thread ends with current_phase =
\* error and error_log gains one line for the failure; no further step of
\* the thread is dispatched.
C23_StepExceptionPhaseError ==
    [][/\ StepRaised =>
            /\ h_state'.current_phase = "error"
            /\ Len(h_state'.error_log) = Len(h_state.error_log) + 1
       /\ h_pc = "error" => h_trail' = h_trail]_vars

-----------------------------------------------------------------------------
(* External adapter calls made inside the steps.  A run as in SpecRun, with  *)
(* at most one adapter throwing in each step.  The vanguard calls the BMS   *)
(* telemetry tools, the jurist the regulatory tools on its evaluation path  *)
(* with anomalies, the architect the ticket tool when there are anomalies,  *)
(* all outside any try block; finalize wraps each of its adapters in        *)
(* try / except Exception.                                                  *)

Adapters ==
    {"telemetry", "regulatory", "ticket", "settlement", "risk", "friction", "fhir", "fintech"}

GuardedAdapters == {"settlement", "risk", "friction", "fhir", "fintech"}

AdapterCalled(node, state, adapter) ==
    CASE adapter = "telemetry" -> node = "vanguard"
      [] adapter = "regulatory" ->
            /\ node = "jurist"
            /\ VerifyCitationsPresent(state.citations)
            /\ Len(state.anomalies) > 0
      [] adapter = "ticket" -> node = "architect" /\ Len(state.anomalies) > 0
      [] OTHER ->
            /\ node = "finalize"
            /\ ~state.simulation_result.null
            /\ ~state.compliance_report.null

\* The results of a node when the named adapter throws ("none": no adapter does).
NodeResultsUnder(node, state, human_response, inj, failing) ==
    IF failing = "none" \/ ~AdapterCalled(node, state, failing)
    THEN NodeResults(node, state, human_response, inj)
    ELSE IF failing \notin GuardedAdapters
    THEN { Raise }
    ELSE { FinalizeNode(state, [settlement |-> failing # "settlement",
                                risk |-> failing # "risk",
                                fhir |-> failing # "fhir",
                                fintech |-> failing # "fintech"]) }

AdapterRunInit ==
    /\ RuntimeInit
    /\ h_pc = "ready"
    /\ \E e \in RunEntries :
          /\ h_state = e.state
          /\ h_out = [fn |-> "entry", to |-> e.to, resume |-> NoResponse,
                      failing |-> "none", called |-> FALSE]
    /\ h_delta = [current_phase |-> "none"]
    /\ h_trail = << >>

AdapterRunStep(failing) ==
    /\ h_pc = "ready"
    /\ \E inj \in InjectionInputs :
       \E res \in NodeResultsUnder(h_out.to, h_state, h_out.resume, inj, failing) :
       \E seen \in SeenAfter(h_out.to, res, h_state) :
         LET node == h_out.to
             vals == IF res.kind \in {"delta", "command"} THEN Merge(seen, res.update) ELSE seen
             next == IF res.kind = "command" THEN res.goto
                     ELSE IF res.kind = "delta" THEN RouteAfter(node, vals)
                     ELSE "none"
         IN /\ h_trail' = Append(h_trail, node)
            /\ h_delta' = res.update
            /\ h_state' = vals
            /\ h_out' = [fn |-> node, to |-> next, resume |-> NoResponse,
                         failing |-> failing,
                         called |-> (failing # "none" /\ AdapterCalled(node, h_state, failing))]
            /\ h_pc' = IF res.kind = "raise" \/ next = "AttributeError" THEN "error"
                       ELSE IF res.kind = "interrupt" THEN "suspended"
                       ELSE IF next = END THEN "done"
                       ELSE "ready"
    /\ RuntimeUnchanged

AdapterRunResume(human_response) ==
    /\ h_pc = "suspended"
    /\ Len(SelectSeq(h_trail, LAMBDA n : n = "resume")) < MaxResumes
    /\ h_pc' = "ready"
    /\ h_out' = [fn |-> "resume", to |-> "governor", resume |-> human_response,
                 failing |-> "none", called |-> FALSE]
    /\ h_trail' = Append(h_trail, "resume")
    /\ UNCHANGED <<h_state, h_delta>>
    /\ RuntimeUnchanged

AdapterRunNext ==
    \/ \E failing \in Adapters \cup {"none"} : AdapterRunStep(failing)
    \/ \E hr \in {HumanResponse(TRUE, 1000), HumanResponse(FALSE, 800)} : AdapterRunResume(hr)

SpecAdapters == AdapterRunInit /\ [][AdapterRunNext]_vars

\* C24 as stated: when an adapter call made inside a step throws, the
\* exception is caught, that adapter's contribution is omitted, the step
\* still returns its delta and the thread continues.
C24_AdapterFailureCaught ==
    [][(h_pc = "ready" /\ h_out'.called) =>
            /\ h_pc' # "error"
            /\ h_delta'.current_phase # "none"
            /\ h_out'.failing = "settlement" => h_delta'.settlements = << >>
            /\ h_out'.failing = "risk" => h_delta'.risk_scores = << >>
            /\ h_out'.failing = "fhir" => h_delta'.fhir_observations = << >>]_vars

-----------------------------------------------------------------------------
(* Threads side by side *)

\* Run r finished a step in this transition.
C26_Stepped(r) == StepEnd(r)

\* C26 as stated: with threads T1 and T2 both under way, under any
\* interleaving each thread's decision_traces grows monotonically and holds
\* only traces produced by that thread's own steps (those its task carried
\* from the thread's checkpoint plus the one of the step), and no step of
\* one thread changes the other thread's checkpointed state.
C26_ThreadsIsolated ==
    [][(\A u \in Threads : store[u].exists) =>
         \A t \in Threads :
            /\ store'[t].exists =>
                  IsPrefix(store[t].vals.decision_traces, store'[t].vals.decision_traces)
            /\ \A r \in RunIds :
                  /\ (C26_Stepped(r) /\ runs[r].tid # t) => store'[t] = store[t]
                  /\ (C26_Stepped(r) /\ runs[r].tid = t /\ store'[t] # store[t]
                        /\ store'[t].exists) =>
                        /\ IsPrefix(runs[r].vals.decision_traces,
                                    store'[t].vals.decision_traces)
                        /\ Len(store'[t].vals.decision_traces)
                              <= Len(runs[r].vals.decision_traces) + 1]_vars

-----------------------------------------------------------------------------
(* iteration_count across the steps of a thread *)

\* C29: iteration_count is changed only by the Detector, which sets it to
\* its previous value plus one on every dispatch; the deltas of Jurist,
\* Architect, Governor and Finalizer never contain iteration_count, and a
\* resume leaves the value alone.
C29_IterationCountOnlyByDetector ==
    [][IF h_pc = "ready" /\ h_out.to = "vanguard"
          THEN /\ "iteration_count" \in DOMAIN h_delta'
               /\ h_delta'.iteration_count = h_state.iteration_count + 1
               /\ h_state'.iteration_count = h_state.iteration_count + 1
          ELSE /\ h_pc = "ready" => "iteration_count" \notin DOMAIN h_delta'
               /\ h_state'.iteration_count = h_state.iteration_count]_vars

\* A thread started at the Detector ran through Jurist, Architect, Governor
\* and Finalizer; the count is still the one the Detector wrote.
C29_Witness ==
    /\ h_pc = "done"
    /\ h_out.fn = "finalize"
    /\ h_trail[1] = "vanguard"
    /\ h_state.iteration_count = 1

-----------------------------------------------------------------------------
(* decision_traces across the steps of a thread *)

C30_AgentOf(node) == IF node = "finalize" THEN "none" ELSE node

\* Traces the step at h_out.to is to add: none from the Finalizer, from a
\* Jurist citation failure, from a Governor dispatch that suspends or from a
\* step that raised; one from every other dispatch.
C30_Gain ==
    IF h_pc' \in {"suspended", "error"} /\ h_out'.to = "none" THEN 0
    ELSE IF h_out.to = "finalize" THEN 0
    ELSE IF h_out.to = "jurist" /\ h_state'.current_phase = "citation_failure" THEN 0
    ELSE 1

\* C30: decision_traces gains exactly one trace, of the dispatched agent,
\* per dispatch of the Detector, of the Jurist on its evaluation path, of the
\* Architect and of the Governor on resume, and none from the Finalizer, a
\* Jurist citation failure or a Governor dispatch that suspends; a thread
\* started at the Detector and approved at its first resume ends with the
\* four traces detector, jurist, architect, governor in this order.
C30_OneTracePerDecision ==
    [][(h_pc = "ready" =>
          LET old == h_state.decision_traces
              new == h_state'.decision_traces
          IN /\ IsPrefix(old, new)
             /\ Len(new) = Len(old) + C30_Gain
             /\ C30_Gain = 1 => new[Len(new)].agent_id = C30_AgentOf(h_out.to)
             /\ (h_out.to = "governor" /\ ~h_out.resume.null) => C30_Gain = 1
             /\ (h_out.to \in {"vanguard", "architect"}) => C30_Gain = 1)
       /\ (h_pc = "suspended" => h_state'.decision_traces = h_state.decision_traces)
       /\ (/\ h_pc' = "done"
           /\ h_out'.fn = "finalize"
           /\ h_trail[1] = "vanguard"
           /\ Len(SelectSeq(h_trail, LAMBDA n : n = "resume")) = 1) =>
             /\ Len(h_state'.decision_traces) = 4
             /\ [i \in 1..4 |-> h_state'.decision_traces[i].agent_id]
                    = << "vanguard", "jurist", "architect", "governor" >>]_vars

\* An approved thread with no rejection is complete and holds four traces.
C30_Witness ==
    /\ h_pc = "done"
    /\ h_out.fn = "finalize"
    /\ h_trail = << "vanguard", "jurist", "architect", "governor", "resume", "governor", "finalize" >>
    /\ Len(h_state.decision_traces) = 4

-----------------------------------------------------------------------------
(* current_phase across the steps of a thread *)

\* Position of a phase in the order starting, vanguard_complete,
\* jurist_complete, architect_complete, governor_approved or
\* governor_rejected, complete; citation_failure is the Jurist's other outcome.
C28_Rank(phase) ==
    CASE phase = "starting" -> 0
      [] phase = "vanguard_complete" -> 1
      [] phase \in {"jurist_complete", "citation_failure"} -> 2
      [] phase = "architect_complete" -> 3
      [] phase \in {"governor_approved", "governor_rejected"} -> 4
      [] phase = "complete" -> 5

C28_Backwards == C28_Rank(h_state'.current_phase) < C28_Rank(h_state.current_phase)

\* The Detector is dispatched again after a citation failure of the Jurist.
C28_SelfCorrectionLoop ==
    /\ h_pc = "ready"
    /\ h_out.to = "vanguard"
    /\ h_state.current_phase = "citation_failure"

\* The Architect is dispatched again after a rejection by the Governor.
C28_RejectionLoop ==
    /\ h_pc = "ready"
    /\ h_out.to = "architect"
    /\ h_state.current_phase = "governor_rejected"

\* C28 as stated: current_phase advances monotonically through starting,
\* vanguard_complete, jurist_complete, architect_complete, governor_approved
\* or governor_rejected, complete, and moves backwards only when the
\* Jurist->Detector self-correction loop is taken.
C28_BackwardsOnlyInSelfCorrection ==
    [][/\ h_state'.current_phase \in Phases
       /\ C28_Backwards => C28_SelfCorrectionLoop]_vars

\* C28, amended: within one execution current_phase advances monotonically
\* through that order and moves backwards only when the Jurist->Detector
\* self-correction loop or the Governor->Architect rejection loop is taken.
C28_BackwardsOnlyInLoops ==
    [][/\ h_state'.current_phase \in Phases
       /\ C28_Backwards => (C28_SelfCorrectionLoop \/ C28_RejectionLoop)]_vars

\* The rejection loop was taken: the phase is back at architect_complete
\* after governor_rejected.
C28_Witness ==
    /\ h_out.fn = "architect"
    /\ h_state.current_phase = "architect_complete"
    /\ h_state.governor_approval = "false"
    /\ Len(h_trail) >= 2
    /\ h_trail[Len(h_trail) - 1] = "governor"

-----------------------------------------------------------------------------
(* The event stream of a thread (api/routes.py, stream_events).  The         *)
(* generator polls the thread's checkpointed state: each iteration sends the *)
(* ui_events past last_event_count, a phase_change when current_phase        *)
(* differs from last_phase, then either "complete" (and stops) or, once per  *)
(* stream, the events of the interrupt payload and "interrupt".  The loop    *)
(* ends after max_polls iterations.  Here h_state is the checkpointed state, *)
(* h_delta the generator's locals and h_trail the items sent.                *)

MAX_POLLS == 1200
MaxPolls == 4

\* ui_pre of governor_node: carried by the interrupt payload only.
GovernorPreEvents ==
    << UiEvent("governor_panel", "absent", "absent"),
       UiEvent("neural_feed", "GOVERNOR", "medium") >>

StreamResponses == { HumanResponse(TRUE, 1000), HumanResponse(FALSE, 800) }

StreamInit ==
    /\ RuntimeInit
    /\ h_pc = "ready"
    /\ h_state = InitialState
    /\ h_out = [fn |-> "entry", to |-> "vanguard", resume |-> NoResponse, resumes |-> 0]
    /\ h_delta = [last_event_count |-> 0, last_phase |-> "", interrupt_sent |-> FALSE,
                  polls |-> 0, open |-> TRUE]
    /\ h_trail = << >>

\* One step of the thread: dispatch, merge, checkpoint, pick the next step.
StreamRunStep ==
    /\ h_pc = "ready"
    /\ \E inj \in InjectionInputs :
       \E res \in NodeResults(h_out.to, h_state, h_out.resume, inj) :
       \E seen \in SeenAfter(h_out.to, res, h_state) :
         LET node == h_out.to
             vals == IF res.kind \in {"delta", "command"} THEN Merge(seen, res.update) ELSE seen
             next == IF res.kind = "command" THEN res.goto
                     ELSE IF res.kind = "delta" THEN RouteAfter(node, vals)
                     ELSE "none"
         IN /\ h_state' = vals
            /\ h_out' = [fn |-> node, to |-> next, resume |-> NoResponse,
                         resumes |-> h_out.resumes]
            /\ h_pc' = IF res.kind = "raise" \/ next = "AttributeError" THEN "error"
                       ELSE IF res.kind = "interrupt" THEN "suspended"
                       ELSE IF next = END THEN "done"
                       ELSE "ready"
    /\ UNCHANGED <<h_delta, h_trail>>
    /\ RuntimeUnchanged

\* resume(thread_id, human_response) on the suspended thread.
StreamResume(human_response) ==
    /\ h_pc = "suspended"
    /\ h_out.resumes < MaxResumes
    /\ h_pc' = "ready"
    /\ h_out' = [fn |-> "resume", to |-> "governor", resume |-> human_response,
                 resumes |-> h_out.resumes + 1]
    /\ UNCHANGED <<h_state, h_delta, h_trail>>
    /\ RuntimeUnchanged

\* The items one iteration of event_generator's loop sends for the state it
\* read.
PollSends ==
    LET ui == h_state.ui_events
        last == h_delta.last_event_count
        fresh == IF Len(ui) > last THEN Len(ui) - last ELSE 0
        new_events == [i \in 1..fresh |-> [kind |-> "ui", index |-> last + i, evt |-> ui[last + i]]]
        current_phase == h_state.current_phase
        phase_change == IF current_phase # h_delta.last_phase
                           THEN << [kind |-> "phase_change", phase |-> current_phase] >>
                           ELSE << >>
        has_interrupt == h_pc = "suspended"
    IN new_events \o phase_change \o
       (IF current_phase = "complete" THEN << [kind |-> "complete", phase |-> current_phase] >>
        ELSE IF has_interrupt /\ ~h_delta.interrupt_sent
            THEN [i \in 1..Len(GovernorPreEvents) |-> [kind |-> "pre", evt |-> GovernorPreEvents[i]]]
                 \o << [kind |-> "interrupt"] >>
        ELSE << >>)

\* One iteration of the loop.
Poll ==
    /\ h_delta.open
    /\ h_delta.polls < MaxPolls
    /\ LET complete == h_state.current_phase = "complete"
       IN /\ h_trail' = h_trail \o PollSends
          /\ h_delta' = [last_event_count |-> Len(h_state.ui_events),
                         last_phase |-> h_state.current_phase,
                         interrupt_sent |-> h_delta.interrupt_sent
                                              \/ (h_pc = "suspended" /\ ~complete),
                         polls |-> IF complete THEN h_delta.polls ELSE h_delta.polls + 1,
                         open |-> ~complete /\ h_delta.polls + 1 < MAX_POLLS]
    /\ UNCHANGED <<h_pc, h_state, h_out>>
    /\ RuntimeUnchanged

\* The thread does not move while the rest of the max_polls iterations find
\* nothing to send; the loop ends.
IdlePolls ==
    /\ h_delta.open
    /\ PollSends = << >>
    /\ h_delta' = [h_delta EXCEPT !.polls = MAX_POLLS, !.open = FALSE]
    /\ UNCHANGED <<h_pc, h_state, h_out, h_trail>>
    /\ RuntimeUnchanged

StreamNext ==
    \/ StreamRunStep
    \/ \E hr \in StreamResponses : StreamResume(hr)
    \/ Poll
    \/ IdlePolls

SpecStream == StreamInit /\ [][StreamNext]_vars

C27_Delivered == SelectSeq(h_trail, LAMBDA item : item.kind = "ui")

C27_CompleteSent == \E i \in 1..Len(h_trail) : h_trail[i].kind = "complete"

\* C27: the observer of a thread receives every event of the merged
\* ui_events list exactly once and in increasing index order: what it was
\* sent is the list's prefix, "complete" comes only after the whole list of
\* the completed state, and once the thread has ended and the stream is over
\* the whole list was sent.
C27_StreamDeliversAll ==
    LET delivered == C27_Delivered
        ui == h_state.ui_events
    IN /\ Len(delivered) <= Len(ui)
       /\ \A i \in 1..Len(delivered) : delivered[i].index = i /\ delivered[i].evt = ui[i]
       /\ C27_CompleteSent => Len(delivered) = Len(ui)
       /\ (h_pc = "done" /\ ~h_delta.open) => Len(delivered) = Len(ui)

-----------------------------------------------------------------------------
(* resume on a thread that is not suspended *)

\* The thread waits at a Governor interrupt: its last checkpoint was left by
\* the interrupt and no task of the thread is under way.
C35_SuspendedAtGovernor(t) ==
    /\ store[t].exists
    /\ store[t].interrupted
    /\ store[t].next = "governor"
    /\ RunsOf(t) = {}

\* resume_run accepted the call: a resume task was created.
C35_ResumeAccepted(r) ==
    /\ runs[r].pc = "free"
    /\ runs'[r].pc = "created"
    /\ runs'[r].kind = "resume"

\* C35: resume(thread_id, ...) on a thread that is not suspended at a
\* Governor interrupt (unknown thread, thread with a step still running,
\* thread already terminated) is rejected: no task is created for it, so no
\* step is dispatched and the checkpointed state stays as it is.
C35_ResumeOnlyWhenSuspended ==
    [][\A r \in RunIds :
          C35_ResumeAccepted(r) => C35_SuspendedAtGovernor(runs'[r].tid)]_vars

-----------------------------------------------------------------------------
(* resumes of one suspension *)

\* Tasks of thread t that hold the Governor step of a suspension with a
\* human response bound: each completes the step on its own copy of the
\* state and adds a governor trace to it.
C36_Resuming(t) ==
    { r \in RunsOf(t) : /\ runs[r].kind = "resume"
                        /\ runs[r].from_interrupt
                        /\ runs[r].node = "governor"
                        /\ ~runs[r].resume.null
                        /\ runs[r].pc \in {"ready", "running"} }

\* C36: each Governor suspension is consumed by at most one resume: of two
\* resume calls issued for one suspension at most one gets to run the
\* Governor step, the other is rejected or has no effect.
C36_SuspensionConsumedOnce ==
    \A t \in Threads : Cardinality(C36_Resuming(t)) <= 1

-----------------------------------------------------------------------------
(* A thread that was started once and waits at the Governor, with resume     *)
(* calls arriving.                                                           *)

\* The checkpointed state of a thread started on a spiked scan, after the
\* Detector, the Jurist and the Architect.
SuspendedVals ==
    LET tel == [energy_count |-> 3, energy_high |-> TRUE, water_count |-> 3, water_high |-> TRUE]
        s1 == Merge(InitialState, VanguardNode(InitialState, tel).update)
        s2 == Merge(s1, JuristNode(s1).update)
        s3 == Merge(s2, ArchitectNode(s2).update)
    IN s3

SuspendedInit ==
    /\ store = [t \in Threads |->
                  IF t = "T1"
                     THEN [exists |-> TRUE, vals |-> SuspendedVals, next |-> "governor",
                           interrupted |-> TRUE, writer |-> 0]
                     ELSE NoCheckpoint]
    /\ runs = [r \in RunIds |-> FreeRun]
    /\ active_runs = [t \in Threads |-> IF t = "T1" THEN "completed" ELSE "absent"]
    /\ injected = NoInjection
    /\ steps = 0
    /\ HarnessOff

ResumeNext ==
    \/ \E t \in Threads, hr \in HumanResponses : ResumeRun(t, hr)
    \/ \E r \in RunIds : EnterRun(r)
    \/ \E r \in RunIds : StepBegin(r)
    \/ \E r \in RunIds : StepEnd(r)

SpecResume == SuspendedInit /\ [][ResumeNext]_vars

C31_Count(events, type) == Len(SelectSeq(events, LAMBDA e : e.type = type))

\* C31: when a thread started once reaches current_phase = complete, its
\* ui_events holds exactly one proof_graph and one execution_complete event,
\* however many rejection loops came before; the Finalizer is dispatched at
\* most once and no step follows it: no step of a thread ends when the
\* thread's checkpoint is already complete.
C31_CompleteOnce ==
    [][\A r \in RunIds :
          StepEnd(r) =>
             LET t == runs[r].tid
             IN /\ store[t].vals.current_phase # "complete"
                /\ store'[t].vals.current_phase = "complete" =>
                      /\ C31_Count(store'[t].vals.ui_events, "proof_graph") = 1
                      /\ C31_Count(store'[t].vals.ui_events, "execution_complete") = 1]_vars

-----------------------------------------------------------------------------
(* Tickets after the Finalizer *)

\* C32: after the Finalizer step has been merged and checkpointed, every
\* ticket in the thread's jira_tickets has status "In Progress".
C32_TicketsInProgress ==
    (h_out.fn = "finalize" /\ h_pc = "done") =>
        \A i \in 1..Len(h_state.jira_tickets) : h_state.jira_tickets[i].status = "In Progress"

\* C33: no step function mutates its input state: after any step returns,
\* the state passed in, nested ticket, anomaly and trace records included,
\* equals its value before the call.
C33_InputNotMutated ==
    h_pc = "ready" =>
        \A inj \in InjectionInputs :
           \A res \in NodeResults(h_out.to, h_state, h_out.resume, inj) :
              InputAfter(h_out.to, res, h_state) = h_state

-----------------------------------------------------------------------------
(* The proof graph (finalize.py, _build_mermaid_graph).  The diagram text is *)
(* the sequence of its lines; a payload_hash is the sequence of its          *)
(* characters.                                                               *)

MaxChain == 3
SigShortLen == 8

\* Traces fed: hashes of which two agree on their first eight characters and
\* one differs there, and a trace without payload_hash ("" by default).
GraphTraces ==
    LET hashes == { << "a", "b", "c", "1", "2", "3", "e", "f", "0" >>,
                    << "a", "b", "c", "1", "2", "3", "e", "f", "9" >>,
                    << "d", "e", "f", "4", "5", "6", "a", "b", "7" >>,
                    << >> }
    IN { [agent_id |-> a, payload_hash |-> h] :
           a \in {"vanguard", "jurist", "governor"}, h \in hashes }

RECURSIVE GraphChains(_)
GraphChains(n) ==
    IF n = 0 THEN { << >> }
    ELSE LET shorter == GraphChains(n - 1)
         IN shorter \cup { Append(c, t) : c \in { s \in shorter : Len(s) = n - 1 },
                                          t \in GraphTraces }

\* payload_hash[:8]
SigShort(payload_hash) ==
    SubSeq(payload_hash, 1, IF Len(payload_hash) < SigShortLen
                               THEN Len(payload_hash) ELSE SigShortLen)

\* node_id = f"{agent}_{i}", i counted from 0
GraphNodeId(decision_traces, k) == << decision_traces[k].agent_id, k - 1 >>

GraphShape(agent) ==
    IF agent = "governor" THEN "rhombus"
    ELSE IF agent = "vanguard" THEN "stadium"
    ELSE "rectangle"

GraphPrev(decision_traces, k) ==
    IF k = 1 THEN << "START", 0 >> ELSE GraphNodeId(decision_traces, k - 1)

BuildMermaidGraphSigOfPrev(decision_traces) ==
    LET n == Len(decision_traces)
        TraceLines(k) ==
            << [kind |-> "node", id |-> GraphNodeId(decision_traces, k),
                shape |-> GraphShape(decision_traces[k].agent_id)],
               [kind |-> "edge", from |-> GraphPrev(decision_traces, k),
                to |-> GraphNodeId(decision_traces, k), labelled |-> k > 1,
                sig |-> IF k > 1 THEN SigShort(decision_traces[k - 1].payload_hash)
                        ELSE << >>] >>
        RECURSIVE Body(_)
        Body(k) == IF k = 0 THEN << >> ELSE Body(k - 1) \o TraceLines(k)
    IN << [kind |-> "header"], [kind |-> "start"] >>
       \o Body(n)
       \o << [kind |-> "edge", from |-> GraphPrev(decision_traces, n + 1),
              to |-> << "END", 0 >>, labelled |-> n > 0,
              sig |-> IF n > 0 THEN SigShort(decision_traces[n].payload_hash) ELSE << >>] >>
       \o << [kind |-> "classDef"] >>
       \o [k \in 1..n |-> [kind |-> "class", id |-> GraphNodeId(decision_traces, k),
                            class |-> decision_traces[k].agent_id]]

\* _build_mermaid_graph: header and START, then per trace a node line and
\* the edge from the previous node labelled with this trace's short hash,
\* then the unlabelled edge to END, the class definitions and one class line
\* per trace.
BuildMermaidGraph(decision_traces) ==
    LET n == Len(decision_traces)
        TraceLines(k) ==
            << [kind |-> "node", id |-> GraphNodeId(decision_traces, k),
                shape |-> GraphShape(decision_traces[k].agent_id)],
               [kind |-> "edge", from |-> GraphPrev(decision_traces, k),
                to |-> GraphNodeId(decision_traces, k), labelled |-> TRUE,
                sig |-> SigShort(decision_traces[k].payload_hash)] >>
        RECURSIVE Body(_)
        Body(k) == IF k = 0 THEN << >> ELSE Body(k - 1) \o TraceLines(k)
    IN << [kind |-> "header"], [kind |-> "start"] >>
       \o Body(n)
       \o << [kind |-> "edge", from |-> GraphPrev(decision_traces, n + 1),
              to |-> << "END", 0 >>, labelled |-> FALSE, sig |-> << >>] >>
       \o << [kind |-> "classDef"] >>
       \o [k \in 1..n |-> [kind |-> "class", id |-> GraphNodeId(decision_traces, k),
                            class |-> decision_traces[k].agent_id]]

GraphInit ==
    /\ RuntimeInit
    /\ h_pc = "ready"
    /\ h_state \in GraphChains(MaxChain)
    /\ h_delta = << >>
    /\ h_out = << >>
    /\ h_trail = << >>

\* finalize_node builds the diagram for the chain.
GraphBuild ==
    /\ h_pc = "ready"
    /\ h_out' = BuildMermaidGraph(h_state)
    /\ h_pc' = "built"
    /\ UNCHANGED <<h_state, h_delta, h_trail>>
    /\ RuntimeUnchanged

\* The diagram is built a second time for the same chain.
GraphRebuild ==
    /\ h_pc = "built"
    /\ h_delta' = BuildMermaidGraph(h_state)
    /\ h_pc' = "done"
    /\ UNCHANGED <<h_state, h_out, h_trail>>
    /\ RuntimeUnchanged

GraphNext == GraphBuild \/ GraphRebuild

SpecGraph == GraphInit /\ [][GraphNext]_vars

C34_Edges == SelectSeq(h_out, LAMBDA l : l.kind = "edge")
C34_Nodes == SelectSeq(h_out, LAMBDA l : l.kind = "node")

\* START first, END last, one node per trace in chain order, one path of
\* n+1 edges.
C34_SinglePath ==
    LET n == Len(h_state)
    IN /\ h_out[2].kind = "start"
       /\ Len(C34_Nodes) = n
       /\ \A k \in 1..n : /\ C34_Nodes[k].id = << h_state[k].agent_id, k - 1 >>
                          /\ C34_Nodes[k].shape = GraphShape(h_state[k].agent_id)
       /\ Len(C34_Edges) = n + 1
       /\ C34_Edges[1].from = << "START", 0 >>
       /\ C34_Edges[n + 1].to = << "END", 0 >>
       /\ \A k \in 1..n : /\ C34_Edges[k].to = C34_Nodes[k].id
                          /\ C34_Edges[k + 1].from = C34_Nodes[k].id

-----------------------------------------------------------------------------
(* Citations at the Jurist in started threads *)

\* Task r is handed the Jurist as its next step.
C37_JuristNext(r) ==
    /\ runs[r].pc # "ready"
    /\ runs'[r].pc = "ready"
    /\ runs'[r].node = "jurist"

\* C37: in any thread started via start(), the Jurist is dispatched only
\* directly after a Detector step whose delta replaced citations with exactly
\* two blocks carrying 64-character hashes: present(citations) holds at every
\* Jurist dispatch and no checkpoint has current_phase = citation_failure.
C37_JuristAfterCitingDetector ==
    [][/\ \A r \in RunIds :
            C37_JuristNext(r) =>
               /\ runs[r].pc = "running" => runs[r].node = "vanguard"
               /\ Len(runs'[r].vals.citations) = 2
               /\ \A i \in 1..2 : runs'[r].vals.citations[i].hash_len = Sha256HexLen
               /\ VerifyCitationsPresent(runs'[r].vals.citations)
       /\ \A t \in Threads : store'[t].vals.current_phase # "citation_failure"]_vars

\* The Jurist of a started thread has completed on the citations of the
\* Detector.
C37_Witness ==
    \E t \in Threads :
       /\ store[t].exists
       /\ store[t].vals.current_phase = "jurist_complete"
       /\ VerifyCitationsPresent(store[t].vals.citations)

-----------------------------------------------------------------------------
(* The Governor and the Finalizer in started threads *)

C38_Dispatched(r, nodes) == runs[r].pc \in {"ready", "running"} /\ runs[r].node \in nodes

\* C38: whenever the Governor or the Finalizer is dispatched in a thread
\* started via start(), simulation_result and compliance_report are both
\* non-null; the Jurist's status is compliant for every anomaly the Detector
\* can emit, so the Governor is never the step after the Jurist.
C38_GovernorSeesSimulation ==
    [][\A r \in RunIds :
          /\ C38_Dispatched(r, {"governor", "finalize"})' =>
                /\ ~runs'[r].vals.simulation_result.null
                /\ ~runs'[r].vals.compliance_report.null
                /\ runs'[r].vals.compliance_report.status = "compliant"
          /\ (runs[r].pc = "running" /\ runs[r].node = "jurist") =>
                ~C38_Dispatched(r, {"governor"})']_vars

\* The Finalizer of a started thread is running on a simulation and a
\* compliant report.
C38_Witness ==
    \E r \in RunIds :
       /\ runs[r].pc = "running"
       /\ runs[r].node = "finalize"
       /\ ~runs[r].vals.simulation_result.null
       /\ runs[r].vals.compliance_report.status = "compliant"

-----------------------------------------------------------------------------
(* Suspensions seen through the event stream *)

\* Number of ui_events items sent before position i of the stream.
C39_UiBefore(i) == Len(SelectSeq(SubSeq(h_trail, 1, i - 1), LAMBDA item : item.kind = "ui"))

\* Positions of the interrupt events sent for the suspension the thread is
\* in: those sent once all ui_events of the suspended state had been sent.
C39_Announced ==
    { i \in 1..Len(h_trail) :
         /\ h_trail[i].kind = "interrupt"
         /\ C39_UiBefore(i) = Len(h_state.ui_events) }

\* C39: for every suspension at the Governor that occurs while a stream is
\* open, the second and later ones of a rejection loop included, the stream
\* emits that suspension's governor_panel event followed by exactly one
\* interrupt event: once the generator has polled the suspended thread, the
\* panel and one interrupt for this suspension have been sent.
C39_EverySuspensionAnnounced ==
    [][(h_pc = "suspended" /\ h_delta'.polls = h_delta.polls + 1) =>
          /\ Cardinality(C39_Announced') = 1
          /\ \A i \in C39_Announced' :
                /\ i > Len(GovernorPreEvents)
                /\ h_trail'[i - Len(GovernorPreEvents)].kind = "pre"
                /\ h_trail'[i - Len(GovernorPreEvents)].evt.type = "governor_panel"]_vars

-----------------------------------------------------------------------------
(* Progress of a started thread.  Every invocation of the graph (the start,  *)
(* each resume) runs under recursion_limit: the runtime counts the steps of  *)
(* the invocation and fails it when the limit is reached before the graph    *)
(* has ended or suspended.                                                   *)

RECURSION_LIMIT == 25
MaxRejections == 8

LiveInit ==
    /\ RuntimeInit
    /\ h_pc = "ready"
    /\ h_state = InitialState
    /\ h_out = [fn |-> "entry", to |-> "vanguard", resume |-> NoResponse,
                dispatched |-> 0, rejections |-> 0]
    /\ h_delta = [current_phase |-> "none"]
    /\ h_trail = << >>

\* One step of the invocation, or its failure at the recursion limit.
LiveStep ==
    /\ h_pc = "ready"
    /\ IF h_out.dispatched >= RECURSION_LIMIT
          THEN /\ h_pc' = "error"
               /\ h_out' = [h_out EXCEPT !.fn = "GraphRecursionError", !.to = "none"]
               /\ UNCHANGED <<h_state, h_delta, h_trail>>
          ELSE \E inj \in InjectionInputs :
               \E res \in NodeResults(h_out.to, h_state, h_out.resume, inj) :
               \E seen \in SeenAfter(h_out.to, res, h_state) :
                 LET node == h_out.to
                     vals == IF res.kind \in {"delta", "command"}
                                THEN Merge(seen, res.update) ELSE seen
                     next == IF res.kind = "command" THEN res.goto
                             ELSE IF res.kind = "delta" THEN RouteAfter(node, vals)
                             ELSE "none"
                 IN /\ h_trail' = Append(h_trail, node)
                    /\ h_delta' = res.update
                    /\ h_state' = vals
                    /\ h_out' = [h_out EXCEPT !.fn = node, !.to = next, !.resume = NoResponse,
                                              !.dispatched = @ + 1]
                    /\ h_pc' = IF res.kind = "raise" \/ next = "AttributeError" THEN "error"
                               ELSE IF res.kind = "interrupt" THEN "suspended"
                               ELSE IF next = END THEN "done"
                               ELSE "ready"
    /\ RuntimeUnchanged

LiveResumeSameInvocation(human_response) ==
    /\ h_pc = "suspended"
    /\ human_response.approved \/ h_out.rejections < MaxRejections
    /\ h_pc' = "ready"
    /\ h_out' = [h_out EXCEPT !.fn = "resume", !.to = "governor", !.resume = human_response,
                              !.rejections = IF human_response.approved THEN @ ELSE @ + 1]
    /\ UNCHANGED <<h_state, h_delta, h_trail>>
    /\ RuntimeUnchanged

\* resume(thread_id, human_response): a new invocation on the suspended
\* thread.
LiveResume(human_response) ==
    /\ h_pc = "suspended"
    /\ human_response.approved \/ h_out.rejections < MaxRejections
    /\ h_pc' = "ready"
    /\ h_out' = [h_out EXCEPT !.fn = "resume", !.to = "governor", !.resume = human_response,
                              !.dispatched = 0,
                              !.rejections = IF human_response.approved THEN @ ELSE @ + 1]
    /\ UNCHANGED <<h_state, h_delta, h_trail>>
    /\ RuntimeUnchanged

LiveNext ==
    \/ LiveStep
    \/ \E hr \in HumanResponses : LiveResume(hr)

\* Fair scheduling: a dispatched step completes, and a suspended thread is
\* eventually resumed.
SpecLive ==
    /\ LiveInit
    /\ [][LiveNext]_vars
    /\ WF_vars(LiveStep)
    /\ WF_vars(\E hr \in HumanResponses : LiveResume(hr))

C40_Resumed(approved) ==
    /\ h_pc = "ready"
    /\ h_out.fn = "resume"
    /\ h_out.resume.approved = approved

\* C40: under fair scheduling every started thread eventually terminates or
\* suspends at the Governor; once a resume has approved = true the thread
\* reaches current_phase = complete; a rejecting resume brings the thread
\* back to the suspension however many rejections came before, and no
\* invocation is failed by the recursion limit.
C40_Progress ==
    /\ (h_pc = "ready") ~> (h_pc \in {"done", "suspended"})
    /\ C40_Resumed(TRUE) ~> (h_pc = "done" /\ h_state.current_phase = "complete")
    /\ C40_Resumed(FALSE) ~> (h_pc = "suspended" /\ h_out.fn = "governor")
    /\ [](h_pc # "error")

\* A thread was approved and completed after more rejections than the
\* iteration cap and more step dispatches than the recursion limit.
C40_Witness ==
    /\ h_pc = "done"
    /\ h_state.current_phase = "complete"
    /\ h_out.rejections > MAX_ITERATIONS
    /\ Len(h_trail) > RECURSION_LIMIT
    /\ h_state.iteration_count = 1

====
